---- MODULE Spec2Model ----
(***************************************************************************)
(* Name resolution and module linking: the flattener (flattening.ts) and   *)
(* the definitions collector (definitionsCollector.ts).                    *)
(*                                                                         *)
(* JavaScript values are modelled as follows.  An object is a record, an   *)
(* array a sequence, a string a string (template strings are string        *)
(* concatenations), a bigint an integer, `undefined` the record Undefined. *)
(* A function that can throw returns a record with a field ok; a function  *)
(* that draws ids from the id generator takes the generator's last id and  *)
(* returns it, updated, in the field last.                                 *)
(***************************************************************************)
EXTENDS Integers, Sequences, FiniteSets, TLC

Undefined == [kind |-> "undefined"]

(***************************************************************************)
(* The Builtin Registry: the identifiers of defaultDefinitions, in order.  *)
(***************************************************************************)
defaultDefinitions ==
  << "not", "and", "or", "iff", "implies", "exists", "guess", "forall", "in",
     "notin", "union", "contains", "fold", "intersect", "exclude", "subseteq",
     "map", "applyTo", "filter", "powerset", "flatten", "allLists",
     "chooseSome", "isFinite", "size", "get", "put", "keys", "mapBy",
     "setToMap", "setOfMaps", "update", "updateAs", "fields", "with",
     "tuples", "append", "concat", "head", "tail", "length", "nth", "indices",
     "replaceAt", "slice", "select", "foldl", "foldr", "to", "always",
     "eventually", "next", "shift", "stutter", "nostutter", "enabled",
     "weakFair", "strongFair", "guarantees", "existsConst", "forallConst",
     "chooseConst", "Bool", "Int", "Nat", "set", "mapOf", "list", "range",
     "tup", "rec", "igt", "ilt", "igte", "ilte", "iadd", "isub", "iuminus",
     "imul", "idiv", "imod", "ipow", "actionAll", "actionAny", "field",
     "fieldNames", "item", "match", "assign", "of", "eq", "neq", "ite",
     "cross", "difference" >>

\* flatten: const builtinNames = new Set(defaultValueDefinitions().map(d => d.identifier))
builtinNames == { defaultDefinitions[k] : k \in 1..Len(defaultDefinitions) }

(***************************************************************************)
(* The id generator.  newIdGenerator(initialId) starts from initialId, or  *)
(* from 0 when no initial id is given; nextId() returns ++lastId.          *)
(***************************************************************************)
BigInt(n) == [kind |-> "bigint", value |-> n]

newIdGenerator(initialId) == IF initialId = Undefined THEN 0 ELSE initialId.value

nextId(last) == last + 1

\* `${name}::${other}`
Namespaced(name, other) == name \o "::" \o other

(***************************************************************************)
(* addNamespaceToType and addNamespaceToRow.  A type is a record with a    *)
(* kind and an id; a row is {kind: 'row', fields, other}, {kind: 'var'}    *)
(* or {kind: 'empty'}.                                                     *)
(***************************************************************************)
RECURSIVE addNamespaceToType(_, _, _)
RECURSIVE addNamespaceToTypes(_, _, _)
RECURSIVE addNamespaceToFields(_, _, _)
RECURSIVE addNamespaceToRecords(_, _, _)

\* row.fields.map(field => ({ ...field, fieldType: addNamespaceToType(...) }))
addNamespaceToFields(name, fields, last) ==
  IF fields = <<>> THEN [val |-> <<>>, last |-> last]
  ELSE LET h == addNamespaceToType(name, Head(fields).fieldType, last)
           t == addNamespaceToFields(name, Tail(fields), h.last)
       IN [val |-> <<[Head(fields) EXCEPT !.fieldType = h.val]>> \o t.val,
           last |-> t.last]

\* a row left as it is
addNamespaceToRowSkip(name, row, last) == [val |-> row, last |-> last]

addNamespaceToRow(name, row, last) ==
  IF row.kind = "row"
  THEN LET fs == addNamespaceToFields(name, row.fields, last)
       IN [val |-> [row EXCEPT !.fields = fs.val], last |-> fs.last]
  ELSE [val |-> row, last |-> last]

\* type.args.map(arg => addNamespaceToType(ctx, name, arg))
addNamespaceToTypes(name, types, last) ==
  IF types = <<>> THEN [val |-> <<>>, last |-> last]
  ELSE LET h == addNamespaceToType(name, Head(types), last)
           t == addNamespaceToTypes(name, Tail(types), h.last)
       IN [val |-> <<h.val>> \o t.val, last |-> t.last]

\* type.records.map(record => ({ ...record, fields: addNamespaceToRow(...) }))
addNamespaceToRecords(name, records, last) ==
  IF records = <<>> THEN [val |-> <<>>, last |-> last]
  ELSE LET h == addNamespaceToRow(name, Head(records).fields, last)
           t == addNamespaceToRecords(name, Tail(records), h.last)
       IN [val |-> <<[Head(records) EXCEPT !.fields = h.val]>> \o t.val,
           last |-> t.last]

addNamespaceToType(name, type, last) ==
  LET id == nextId(last) IN
  CASE type.kind \in {"bool", "int", "str", "var"} ->
         [val |-> [type EXCEPT !.id = id], last |-> id]
    [] type.kind = "const" ->
         [val |-> [type EXCEPT !.name = Namespaced(name, type.name), !.id = id],
          last |-> id]
    [] type.kind \in {"set", "list"} ->
         LET e == addNamespaceToType(name, type.elem, id)
         IN [val |-> [type EXCEPT !.elem = e.val, !.id = id], last |-> e.last]
    [] type.kind = "fun" ->
         LET a == addNamespaceToType(name, type.arg, id)
             r == addNamespaceToType(name, type.res, a.last)
         IN [val |-> [type EXCEPT !.arg = a.val, !.res = r.val, !.id = id],
             last |-> r.last]
    [] type.kind = "oper" ->
         LET a == addNamespaceToTypes(name, type.args, id)
             r == addNamespaceToType(name, type.res, a.last)
         IN [val |-> [type EXCEPT !.args = a.val, !.res = r.val, !.id = id],
             last |-> r.last]
    [] type.kind \in {"tup", "rec"} ->
         LET f == addNamespaceToRow(name, type.fields, id)
         IN [val |-> [type EXCEPT !.fields = f.val, !.id = id], last |-> f.last]
    [] type.kind = "union" ->
         LET r == addNamespaceToRecords(name, type.records, id)
         IN [val |-> [type EXCEPT !.records = r.val, !.id = id], last |-> r.last]


(***************************************************************************)
(* Results of the functions that can throw.                                *)
(***************************************************************************)
Ok(v, last) == [ok |-> TRUE, err |-> "", val |-> v, last |-> last]

Throw(msg, last) == [ok |-> FALSE, err |-> msg, val |-> Undefined, last |-> last]

\* Map.get
MapGet(map, key) == IF key \in DOMAIN map THEN map[key] ELSE Undefined

(***************************************************************************)
(* shouldAddNamespace: the name-rewrite decision.  ctx is the flattening   *)
(* context {table, builtinNames}; the id generator is threaded as last.    *)
(***************************************************************************)
\* the decision without the test for a param
shouldAddNamespaceNoParam(ctx, name, id) ==
  IF name \in ctx.builtinNames THEN [ok |-> TRUE, val |-> FALSE]
  ELSE LET def == MapGet(ctx.table, id) IN
       IF def = Undefined THEN [ok |-> FALSE, val |-> FALSE]
       ELSE [ok |-> TRUE, val |-> TRUE]

shouldAddNamespace(ctx, name, id) ==
  IF name \in ctx.builtinNames THEN [ok |-> TRUE, val |-> FALSE]
  ELSE LET def == MapGet(ctx.table, id) IN
       IF def = Undefined THEN [ok |-> FALSE, val |-> FALSE]
       ELSE IF def.kind = "param" THEN [ok |-> TRUE, val |-> FALSE]
       ELSE [ok |-> TRUE, val |-> TRUE]

(***************************************************************************)
(* addNamespaceToExpr and addNamespaceToOpDef.                             *)
(***************************************************************************)
RECURSIVE addNamespaceToExpr(_, _, _, _)
RECURSIVE addNamespaceToArgs(_, _, _, _)
RECURSIVE addNamespaceToOpDef(_, _, _, _)

\* expr.params.map(param => ({ ...param, id: ctx.idGenerator.nextId() }))
RECURSIVE renewParams(_, _)
renewParams(params, last) ==
  IF params = <<>> THEN [val |-> <<>>, last |-> last]
  ELSE LET id == nextId(last)
           t == renewParams(Tail(params), id)
       IN [val |-> <<[Head(params) EXCEPT !.id = id]>> \o t.val, last |-> t.last]

\* expr.args.map(arg => addNamespaceToExpr(ctx, name, arg))
addNamespaceToArgs(ctx, name, args, last) ==
  IF args = <<>> THEN Ok(<<>>, last)
  ELSE LET h == addNamespaceToExpr(ctx, name, Head(args), last) IN
       IF ~h.ok THEN h
       ELSE LET t == addNamespaceToArgs(ctx, name, Tail(args), h.last) IN
            IF ~t.ok THEN t ELSE Ok(<<h.val>> \o t.val, t.last)

addNamespaceToOpDef(ctx, name, opdef, last) ==
  LET e == addNamespaceToExpr(ctx, name, opdef.expr, last) IN
  IF ~e.ok THEN e
  ELSE LET id == nextId(e.last)
       IN Ok([opdef EXCEPT !.name = Namespaced(name, opdef.name),
                           !.expr = e.val, !.id = id], id)

addNamespaceToExpr(ctx, name, expr, last) ==
  LET id == nextId(last) IN
  CASE expr.kind = "name" ->
         LET s == shouldAddNamespace(ctx, expr.name, expr.id) IN
         IF ~s.ok THEN Throw("Could not find def", id)
         ELSE IF s.val
              THEN Ok([expr EXCEPT !.name = Namespaced(name, expr.name), !.id = id], id)
              ELSE Ok([expr EXCEPT !.id = id], id)
    [] expr.kind \in {"bool", "int", "str"} -> Ok([expr EXCEPT !.id = id], id)
    [] expr.kind = "app" ->
         LET s == shouldAddNamespace(ctx, expr.opcode, expr.id) IN
         IF ~s.ok THEN Throw("Could not find def", id)
         ELSE LET a == addNamespaceToArgs(ctx, name, expr.args, id) IN
              IF ~a.ok THEN a
              ELSE IF s.val
                   THEN Ok([expr EXCEPT !.opcode = Namespaced(name, expr.opcode),
                                        !.args = a.val, !.id = id], a.last)
                   ELSE Ok([expr EXCEPT !.args = a.val, !.id = id], a.last)
    [] expr.kind = "lambda" ->
         LET p == renewParams(expr.params, id)
             e == addNamespaceToExpr(ctx, name, expr.expr, p.last)
         IN IF ~e.ok THEN e
            ELSE Ok([expr EXCEPT !.params = p.val, !.expr = e.val, !.id = id], e.last)
    [] expr.kind = "let" ->
         LET o == addNamespaceToOpDef(ctx, name, expr.opdef, id) IN
         IF ~o.ok THEN o
         ELSE LET e == addNamespaceToExpr(ctx, name, expr.expr, o.last) IN
              IF ~e.ok THEN e
              ELSE Ok([expr EXCEPT !.opdef = o.val, !.expr = e.val, !.id = id], e.last)

(***************************************************************************)
(* addNamespaceToDef.  A definition is a record with a kind, a name and an *)
(* id; the fields typeAnnotation (const, var, def) and type (typedef) are  *)
(* Undefined when absent.                                                  *)
(***************************************************************************)
addNamespaceToDef(ctx, name, def, last) ==
  CASE def.kind = "def" -> addNamespaceToOpDef(ctx, name, def, last)
    [] def.kind = "assume" ->
         LET e == addNamespaceToExpr(ctx, name, def.assumption, last) IN
         IF ~e.ok THEN e
         ELSE LET id == nextId(e.last)
              IN Ok([def EXCEPT !.name = Namespaced(name, def.name),
                                !.assumption = e.val, !.id = id], id)
    [] def.kind \in {"const", "var"} ->
         LET id == nextId(last)
         IN Ok([def EXCEPT !.name = Namespaced(name, def.name), !.id = id], id)
    [] def.kind = "typedef" ->
         LET t == IF def.type # Undefined
                  THEN addNamespaceToType(name, def.type, last)
                  ELSE [val |-> Undefined, last |-> last]
             id == nextId(t.last)
         IN Ok([def EXCEPT !.name = Namespaced(name, def.name),
                           !.type = t.val, !.id = id], id)
    [] def.kind = "instance" -> Throw("should have been flatenned already", last)
    [] def.kind = "import" -> Ok(def, last)

\* quintIr.isAnnotatedDef: the definition carries a type annotation
isAnnotatedDef(def) ==
  "typeAnnotation" \in DOMAIN def /\ def.typeAnnotation # Undefined


(***************************************************************************)
(* The modules flatten is run on.  Every node carries its own id, as the   *)
(* parser assigns them (from 1, the module's id last).                     *)
(***************************************************************************)
MaxProtoDefs == 2
MaxModuleDefs == 2

TInt(id) == [kind |-> "int", id |-> id]
TBool(id) == [kind |-> "bool", id |-> id]
TStr(id) == [kind |-> "str", id |-> id]
TVar(n, id) == [kind |-> "var", name |-> n, id |-> id]
TConst(n, id) == [kind |-> "const", name |-> n, id |-> id]
TSet(e, id) == [kind |-> "set", elem |-> e, id |-> id]
TList(e, id) == [kind |-> "list", elem |-> e, id |-> id]
TFun(a, r, id) == [kind |-> "fun", arg |-> a, res |-> r, id |-> id]
TOper(as, r, id) == [kind |-> "oper", args |-> as, res |-> r, id |-> id]
TTup(row, id) == [kind |-> "tup", fields |-> row, id |-> id]
TRec(row, id) == [kind |-> "rec", fields |-> row, id |-> id]
TUnion(tag, rs, id) == [kind |-> "union", tag |-> tag, records |-> rs, id |-> id]
Row(fs, other) == [kind |-> "row", fields |-> fs, other |-> other]
RowEmpty == [kind |-> "empty"]
RowVar(n) == [kind |-> "var", name |-> n]
Field(n, t) == [fieldName |-> n, fieldType |-> t]

\* The type annotations the overridden constant x is declared with.
TypePool ==
  << TConst("T", 100),
     TFun(TSet(TConst("T", 101), 102), TList(TConst("U", 103), 104), 105),
     TOper(<<TConst("T", 106), TVar("a", 107)>>,
           TTup(Row(<<Field("0", TConst("T", 108)), Field("1", TBool(109))>>,
                    RowEmpty), 110), 111),
     TRec(Row(<<Field("f", TConst("T", 112)), Field("g", TInt(113))>>,
              RowVar("r")), 114),
     TUnion("tag",
            <<[tagValue |-> "A",
               fields |-> Row(<<Field("f", TConst("T", 115))>>, RowEmpty)],
              [tagValue |-> "B",
               fields |-> Row(<<Field("h", TStr(116)), Field("k", TConst("U", 117))>>,
                              RowEmpty)]>>, 118) >>

EName(n, id) == [kind |-> "name", name |-> n, id |-> id]
EInt(v, id) == [kind |-> "int", value |-> v, id |-> id]
EApp(op, args, id) == [kind |-> "app", opcode |-> op, args |-> args, id |-> id]
ELambda(ps, e, id) == [kind |-> "lambda", params |-> ps, expr |-> e, id |-> id]
ELet(od, e, id) == [kind |-> "let", opdef |-> od, expr |-> e, id |-> id]

DTypeDef(n, t, id) == [kind |-> "typedef", name |-> n, type |-> t, id |-> id]
DConst(n, t, id) == [kind |-> "const", name |-> n, typeAnnotation |-> t, id |-> id]
DVar(n, t, id) == [kind |-> "var", name |-> n, typeAnnotation |-> t, id |-> id]
DOpDef(n, q, e, t, id) ==
  [kind |-> "def", name |-> n, qualifier |-> q, expr |-> e,
   typeAnnotation |-> t, id |-> id]
DAssume(n, e, id) == [kind |-> "assume", name |-> n, assumption |-> e, id |-> id]
DImport(n, path, id) == [kind |-> "import", name |-> n, path |-> path, id |-> id]
DInstance(n, proto, ovs, id) ==
  [kind |-> "instance", name |-> n, protoName |-> proto, overrides |-> ovs,
   id |-> id]
Module(n, defs, id) == [name |-> n, defs |-> defs, id |-> id]

\* module M2 { val y = 2 }
ModuleM2 == Module("M2", <<DOpDef("y", "val", EInt(2, 3), Undefined, 4)>>, 5)

\* The declarations a prototype M is made of, in source order.
ProtoPool(xType) ==
  << DTypeDef("T", TInt(10), 11),
     DConst("T", TInt(12), 13),
     DConst("x", xType, 14),
     DVar("y", TSet(TConst("T", 16), 15), 17),
     DOpDef("q", "val", EInt(1, 18), Undefined, 19),
     \* def f(p) : (int) => int = iadd(x, p)
     DOpDef("f", "def",
            ELambda(<<[name |-> "p", id |-> 20]>>,
                    EApp("iadd", <<EName("x", 21), EName("p", 22)>>, 23), 24),
            TOper(<<TInt(26)>>, TInt(27), 28), 25),
     \* val g = { val k = f(x) k }
     DOpDef("g", "val",
            ELet(DOpDef("k", "val", EApp("f", <<EName("x", 29)>>, 30), Undefined, 31),
                 EName("k", 32), 34),
            Undefined, 35),
     DAssume("a", EName("x", 36), 37),
     DTypeDef("U", Undefined, 38),
     DImport("*", "M2", 39),
     DTypeDef("I", TBool(40), 41),
     DInstance("I", "M2", <<>>, 42) >>

\* The declarations the flattened module is made of, in source order.
ModulePool ==
  << DOpDef("w", "val", EInt(1, 50), Undefined, 51),
     DInstance("N", "M", << <<EName("x", 53), EInt(5, 54)>>,
                            <<EName("q", 55), EInt(7, 56)>> >>, 57),
     DInstance("K", "M", <<>>, 58),
     DVar("v", TInt(59), 60),
     DInstance("Z", "Absent", <<>>, 61) >>

RECURSIVE SelectSeq2(_, _, _)
\* the subsequence of seq at the indices in S
SelectSeq2(seq, S, k) ==
  IF k > Len(seq) THEN <<>>
  ELSE (IF k \in S THEN <<seq[k]>> ELSE <<>>) \o SelectSeq2(seq, S, k + 1)

SubSeqs(seq, max) ==
  { SelectSeq2(seq, S, 1) : S \in { X \in SUBSET (1..Len(seq)) : Cardinality(X) <= max } }

\* The lookup table of the name resolver for these modules: the definition
\* each reference resolves to, by the reference's id.
FullTable(xType) ==
  LET constX == [kind |-> "const", name |-> "x", typeAnnotation |-> xType, reference |-> 14]
      opF == [kind |-> "def", name |-> "f",
              typeAnnotation |-> TOper(<<TInt(26)>>, TInt(27), 28), reference |-> 25]
  IN (53 :> constX) @@ (21 :> constX) @@ (29 :> constX) @@ (36 :> constX)
     @@ (55 :> [kind |-> "def", name |-> "q", typeAnnotation |-> Undefined, reference |-> 19])
     @@ (22 :> [kind |-> "param", name |-> "p", typeAnnotation |-> Undefined, reference |-> 24])
     @@ (30 :> opF)
     @@ (32 :> [kind |-> "def", name |-> "k", typeAnnotation |-> Undefined, reference |-> 31])

\* References whose entries a table built for another tree may lack.
DropSets == {{53}, {21, 30}}

Restrict(f, S) == [k \in S |-> f[k]]

\* An input: the annotation of x, and the references the table lacks.
Variants ==
  { [type |-> k, drop |-> {}] : k \in 1..Len(TypePool) }
  \cup { [type |-> 1, drop |-> d] : d \in DropSets }

TableOf(v) ==
  LET full == FullTable(TypePool[v.type])
  IN Restrict(full, DOMAIN full \ v.drop)

(***************************************************************************)
(* The state of one run of flatten(module, table, modules).                *)
(***************************************************************************)
VARIABLES
  module,     \* the module to flatten
  table,      \* the lookup table, by reference id
  modules,    \* the modules by name
  idGenerator,\* the id generator's lastId
  acc,        \* the accumulator of the reduce: the new definitions so far
  origin,     \* history: for each definition of acc, where it comes from
  i,          \* the reduce's position in module.defs
  j,          \* the forEach's position in protoModule.defs (0: not in one)
  status,     \* "called", "reduce", "returned" or "thrown"
  error,      \* the message of the error thrown
  result      \* the module returned

fvars == <<module, table, modules, idGenerator, acc, origin, i, j, status, error, result>>

(***************************************************************************)
(* The state of one run of collectDefinitions: the fields of the           *)
(* DefinitionsCollectorVisitor, the objects they refer to, and the place   *)
(* of walkModule in the module.  A Map is an object, referred to by its    *)
(* index in maps: its keys in insertion order and, for each key, a         *)
(* reference to a DefinitionTable object, an index in objects.             *)
(***************************************************************************)
VARIABLES
  objects,            \* the DefinitionTable objects
  maps,               \* the Map objects (lookup tables)
  tables,             \* this.tables: module name -> Map
  currentModuleName,  \* this.currentModuleName
  currentTable,       \* this.currentTable: a Map
  moduleStack,        \* this.moduleStack
  scopeStack,         \* this.scopeStack
  open,               \* walkModule: the module definitions and lets not yet left
  inExpr,             \* walkModule: inside the body of a definition
  walked,             \* walkModule: the modules, declarations, lambdas and lets it may still enter
  lastId,             \* the last id the parser gave to a node
  lastEvent,          \* history: the last call of the visitor
  lastExit,           \* history: the nested module left last, and its parent
  instances           \* history: the instance declarations walked, with their module

cvars == <<objects, maps, tables, currentModuleName, currentTable, moduleStack,
           scopeStack, open, inExpr, walked, lastId, lastEvent, lastExit, instances>>

(***************************************************************************)
(* One use of the type alias inliner: the modules and the lookup table it  *)
(* is given, and what resolveAlias and inlineTypeAliases return.           *)
(***************************************************************************)
VARIABLES
  lookupTable,   \* the lookup table: reference id -> definition
  aliasModules,  \* the modules given to inlineTypeAliases
  aliasType,     \* the type given to resolveAlias
  resolved,      \* what resolveAlias returned for aliasType
  inlined,       \* what inlineTypeAliases returned for the modules and the table
  reinlined      \* what inlineTypeAliases returned for what it had returned

avars == <<lookupTable, aliasModules, aliasType, resolved, inlined, reinlined>>

(***************************************************************************)
(* One run of resolveImports: the tables by module, the importing module's *)
(* declarations, the declaration reached, the errors so far, the result.   *)
(***************************************************************************)
VARIABLES
  importTables,  \* the lookup tables by module, the importing module's being extended
  importDefs,    \* the import and instance declarations of the importing module
  importPos,     \* the declaration reached
  importErrors,  \* the errors found so far
  importResult   \* the result returned

ivars == <<importTables, importDefs, importPos, importErrors, importResult>>

(***************************************************************************)
(* One application of substitutions: the list of substitutions, what they  *)
(* are applied to, and what the application returned.                      *)
(***************************************************************************)
VARIABLES
  subs,          \* the substitutions, in order
  substTarget,   \* the variables or the effect the substitutions are applied to
  substResult    \* what the application returned

svars == <<subs, substTarget, substResult>>

(***************************************************************************)
(* The single-table collector: the module-level array of built-in name     *)
(* definitions and the tables its calls returned, in call order.           *)
(***************************************************************************)
VARIABLES
  defaultDefinitionsArray, \* the array bound to the constant defaultDefinitions
  returned                 \* the calls made: the module and the table returned

dvars == <<defaultDefinitionsArray, returned>>

(***************************************************************************)
(* The evaluation Context: its fields, and the calls made on it so far     *)
(* that are still open, with the value each found.                         *)
(***************************************************************************)
VARIABLES
  context,          \* the fields of the Context object
  constsBefore,     \* history: consts as each open addConstants found it
  namespacesBefore, \* history: namespaces as each open addNamespaces found it, and what was given
  lastCall          \* history: the last method called, and what it was given

xvars == <<context, constsBefore, namespacesBefore, lastCall>>

\* what a step of each component leaves alone
nonFlatten == <<cvars, avars, ivars, svars, dvars, xvars>>

nonCollect == <<fvars, avars, ivars, svars, dvars, xvars>>

nonAlias == <<fvars, cvars, ivars, svars, dvars, xvars>>

nonImport == <<fvars, cvars, avars, svars, dvars, xvars>>

nonSubst == <<fvars, cvars, avars, ivars, dvars, xvars>>

nonFlat == <<fvars, cvars, avars, ivars, svars, xvars>>

nonContext == <<fvars, cvars, avars, ivars, svars, dvars>>

vars == <<fvars, cvars, avars, ivars, svars, dvars, xvars>>

RECURSIVE SortIds(_)
\* Array.sort((a, b) => Number(a - b)): ascending
SortIds(ids) ==
  IF ids = <<>> THEN <<>>
  ELSE LET m == CHOOSE k \in 1..Len(ids) : \A l \in 1..Len(ids) : ids[k] <= ids[l]
       IN <<ids[m]>> \o SortIds(SubSeq(ids, 1, m - 1) \o SubSeq(ids, m + 1, Len(ids)))

RECURSIVE MapValues(_, _)
\* [...map.values()], the keys taken in the order keys
MapValues(map, keys) ==
  IF keys = {} THEN <<>>
  ELSE LET k == CHOOSE k \in keys : TRUE
       IN <<map[k]>> \o MapValues(map, keys \ {k})

\* array[k] for a JavaScript index k: undefined outside 0..length-1
JsIndex(array, k) ==
  IF k \in 0..(Len(array) - 1) THEN BigInt(array[k + 1]) ELSE Undefined

\* const lastId = [...modules.values()].map(m => m.id).sort(...)[-1]
lastIdOf(ms) ==
  LET values == MapValues(ms, DOMAIN ms)
      ids == [k \in 1..Len(values) |-> values[k].id]
  IN JsIndex(SortIds(ids), -1)

FlattenInit ==
  /\ \E v \in Variants, defs \in SubSeqs(ModulePool, MaxModuleDefs) :
     \E protoDefs \in SubSeqs(ProtoPool(TypePool[v.type]), MaxProtoDefs) :
       /\ module = Module("wrapper", defs, 62)
       /\ table = TableOf(v)
       /\ modules = ("M2" :> ModuleM2) @@ ("M" :> Module("M", protoDefs, 43))
                    @@ ("wrapper" :> Module("wrapper", defs, 62))
  /\ idGenerator = 0
  /\ acc = <<>>
  /\ origin = <<>>
  /\ i = 0
  /\ j = 0
  /\ status = "called"
  /\ error = ""
  /\ result = Undefined

ctx == [table |-> table, builtinNames |-> builtinNames]

\* flatten, lines 9-13: the id generator and the context
FlattenEnter ==
  /\ status = "called"
  /\ idGenerator' = newIdGenerator(lastIdOf(modules))
  /\ status' = "reduce"
  /\ i' = 1
  /\ UNCHANGED <<nonFlatten, module, table, modules, acc, origin, j, error, result>>

FlattenThrow(msg, last) ==
  /\ status' = "thrown"
  /\ error' = msg
  /\ idGenerator' = last
  /\ UNCHANGED <<nonFlatten, module, table, modules, acc, origin, i, j, result>>

\* the callback pushing every definition, instances too
FlattenKeepAll ==
  /\ status = "reduce" /\ j = 0 /\ i <= Len(module.defs)
  /\ acc' = Append(acc, module.defs[i])
  /\ origin' = Append(origin, [from |-> "module", i |-> i, k |-> 0])
  /\ i' = i + 1
  /\ UNCHANGED <<nonFlatten, module, table, modules, idGenerator, j, status, error, result>>

\* the callback pushing a copy with a new id
FlattenKeepRenew ==
  /\ status = "reduce" /\ j = 0 /\ i <= Len(module.defs)
  /\ module.defs[i].kind # "instance"
  /\ idGenerator' = nextId(idGenerator)
  /\ acc' = Append(acc, [module.defs[i] EXCEPT !.id = idGenerator'])
  /\ origin' = Append(origin, [from |-> "module", i |-> i, k |-> 0])
  /\ i' = i + 1
  /\ UNCHANGED <<nonFlatten, module, table, modules, j, status, error, result>>

\* the reduce callback on a definition that is no instance: acc.push(def)
FlattenKeep ==
  /\ status = "reduce" /\ j = 0 /\ i <= Len(module.defs)
  /\ module.defs[i].kind # "instance"
  /\ acc' = Append(acc, module.defs[i])
  /\ origin' = Append(origin, [from |-> "module", i |-> i, k |-> 0])
  /\ i' = i + 1
  /\ UNCHANGED <<nonFlatten, module, table, modules, idGenerator, j, status, error, result>>

RECURSIVE overridesOf(_, _, _, _)
\* def.overrides.forEach(([param, expr]) => acc.push(...)), from the k-th on
overridesOf(tbl, def, k, last) ==
  IF k > Len(def.overrides) THEN Ok(<<>>, last)
  ELSE LET param == def.overrides[k][1]
           expr == def.overrides[k][2]
           constDef == MapGet(tbl, param.id)
       IN IF constDef = Undefined THEN Throw("TypeError", last)
          ELSE LET type == IF constDef.typeAnnotation # Undefined
                           THEN addNamespaceToType(def.name, constDef.typeAnnotation, last)
                           ELSE [val |-> Undefined, last |-> last]
                   id == nextId(type.last)
                   new == [kind |-> "def", name |-> Namespaced(def.name, param.name),
                           qualifier |-> "pureval", expr |-> expr,
                           typeAnnotation |-> type.val, id |-> id]
                   rest == overridesOf(tbl, def, k + 1, id)
               IN IF ~rest.ok THEN rest ELSE Ok(<<new>> \o rest.val, rest.last)

\* the reduce callback on an instance, up to the loop over the prototype
FlattenOverrides ==
  /\ status = "reduce" /\ j = 0 /\ i <= Len(module.defs)
  /\ module.defs[i].kind = "instance"
  /\ LET def == module.defs[i]
         protoModule == MapGet(modules, def.protoName)
         ovs == overridesOf(table, def, 1, idGenerator)
     IN IF ~ovs.ok THEN FlattenThrow(ovs.err, ovs.last)
        ELSE IF protoModule = Undefined THEN FlattenThrow("TypeError", ovs.last)
        ELSE /\ acc' = acc \o ovs.val
             /\ origin' = origin \o [k \in 1..Len(ovs.val) |->
                                       [from |-> "override", i |-> i, k |-> k]]
             /\ idGenerator' = ovs.last
             /\ IF protoModule.defs = <<>>
                THEN i' = i + 1 /\ j' = 0
                ELSE i' = i /\ j' = 1
             /\ UNCHANGED <<nonFlatten, module, table, modules, status, error, result>>

\* acc.some(d => d.name === `${def.name}::${protoDef.name}`)
alreadyDefined(defs, def, protoDef) ==
  \E k \in 1..Len(defs) : defs[k].name = Namespaced(def.name, protoDef.name)

\* the body of protoModule.defs.forEach: the definitions pushed for protoDef
namespacedCopy(c, def, protoDef, last) ==
  IF isAnnotatedDef(protoDef)
  THEN LET type == addNamespaceToType(def.name, protoDef.typeAnnotation, last)
           newDef == addNamespaceToDef(c, def.name, protoDef, type.last)
       IN IF ~newDef.ok THEN newDef
          ELSE IF ~isAnnotatedDef(newDef.val) THEN Throw("Impossible", newDef.last)
          ELSE Ok([newDef.val EXCEPT !.typeAnnotation = type.val], newDef.last)
  ELSE addNamespaceToDef(c, def.name, protoDef, last)

FlattenProtoDef ==
  /\ status = "reduce" /\ j > 0
  /\ LET def == module.defs[i]
         protoModule == modules[def.protoName]
         protoDef == protoModule.defs[j]
         next == IF j = Len(protoModule.defs) THEN [i |-> i + 1, j |-> 0]
                 ELSE [i |-> i, j |-> j + 1]
     IN IF alreadyDefined(acc, def, protoDef)
        THEN /\ i' = next.i /\ j' = next.j
             /\ UNCHANGED <<nonFlatten, module, table, modules, idGenerator, acc, origin,
                            status, error, result>>
        ELSE LET new == namespacedCopy(ctx, def, protoDef, idGenerator) IN
             IF ~new.ok THEN FlattenThrow(new.err, new.last)
             ELSE /\ acc' = Append(acc, new.val)
                  /\ origin' = Append(origin, [from |-> "proto", i |-> i, k |-> j])
                  /\ idGenerator' = new.last
                  /\ i' = next.i /\ j' = next.j
                  /\ UNCHANGED <<nonFlatten, module, table, modules, status, error, result>>

\* return { ...module, defs: newDefs }
FlattenReturn ==
  /\ status = "reduce" /\ j = 0 /\ i > Len(module.defs)
  /\ result' = [module EXCEPT !.defs = acc]
  /\ status' = "returned"
  /\ UNCHANGED <<nonFlatten, module, table, modules, idGenerator, acc, origin, i, j, error>>

(***************************************************************************)
(* The definitions collector.  The visitor is the record of its fields     *)
(* and of the objects they refer to; each method takes it and returns it   *)
(* as the call leaves it.                                                  *)
(***************************************************************************)
MaxModules == 3
MaxDecls == 2
MaxLambdas == 1
MaxLets == 2

emptyTable == [valueDefinitions |-> <<>>, typeDefinitions |-> <<>>]

\* defaultDefinitions(): one DefinitionTable object for each built-in name
defaultObjects ==
  [k \in 1..Len(defaultDefinitions) |->
     [valueDefinitions |-> <<[kind |-> "def", identifier |-> defaultDefinitions[k],
                              reference |-> Undefined, scope |-> Undefined]>>,
      typeDefinitions |-> <<>>]]

\* defaultDefinitions(): the Map from each built-in name to its object
defaultMap ==
  [keys |-> defaultDefinitions,
   at |-> [n \in builtinNames |->
             CHOOSE k \in 1..Len(defaultDefinitions) : defaultDefinitions[k] = n]]

\* new Map()
emptyMap == [keys |-> <<>>, at |-> <<>>]

MapHas(m, key) == key \in DOMAIN m.at

\* Map.set
MapSet(m, key, ref) ==
  IF MapHas(m, key) THEN [m EXCEPT !.at[key] = ref]
  ELSE [keys |-> Append(m.keys, key), at |-> (key :> ref) @@ m.at]

\* !value for a value that is undefined or a bigint
Falsy(value) == value = Undefined \/ value = BigInt(0)

\* Array.pop
Pop(stack) == IF stack = <<>> THEN <<>> ELSE SubSeq(stack, 1, Len(stack) - 1)

Top(stack) == stack[Len(stack)]

\* this.currentTable.has(identifier) || this.currentTable.set(identifier, emptyTable())
ensureEntry(v, identifier) ==
  IF MapHas(v.maps[v.currentTable], identifier) THEN v
  ELSE [v EXCEPT !.objects = Append(@, emptyTable),
                 !.maps[v.currentTable] = MapSet(@, identifier, Len(v.objects) + 1)]

collectValueDefinition(v, kind, identifier, reference, scope) ==
  IF identifier = "_" THEN v
  ELSE LET w == ensureEntry(v, identifier)
           ref == w.maps[w.currentTable].at[identifier]
       IN [w EXCEPT !.objects[ref].valueDefinitions =
             Append(@, [kind |-> kind, identifier |-> identifier,
                        reference |-> reference, scope |-> scope])]

collectTypeDefinition(v, identifier, type, reference) ==
  LET w == ensureEntry(v, identifier)
      ref == w.maps[w.currentTable].at[identifier]
  IN [w EXCEPT !.objects[ref].typeDefinitions =
        Append(@, [identifier |-> identifier, type |-> type, reference |-> reference])]

\* updateCurrentModule with a new module's table starting empty: new Map()
updateCurrentModuleEmpty(v) ==
  IF Len(v.moduleStack) > 0
  THEN LET name == Top(v.moduleStack) IN
       IF name \in DOMAIN v.tables
       THEN [v EXCEPT !.currentModuleName = name, !.currentTable = v.tables[name]]
       ELSE [v EXCEPT !.currentModuleName = name,
                      !.maps = Append(@, emptyMap),
                      !.tables = (name :> (Len(v.maps) + 1)) @@ @,
                      !.currentTable = Len(v.maps) + 1]
  ELSE v

updateCurrentModule(v) ==
  IF Len(v.moduleStack) > 0
  THEN LET name == Top(v.moduleStack) IN
       IF name \in DOMAIN v.tables
       THEN [v EXCEPT !.currentModuleName = name, !.currentTable = v.tables[name]]
       ELSE \* new Map(this.defaultDefinitions.entries())
            [v EXCEPT !.currentModuleName = name,
                      !.maps = Append(@, v.maps[1]),
                      !.tables = (name :> (Len(v.maps) + 1)) @@ @,
                      !.currentTable = Len(v.maps) + 1]
  ELSE v

enterModuleDef(v, def) ==
  updateCurrentModule([v EXCEPT !.moduleStack = Append(@, def.module.name)])

RECURSIVE collectAll(_, _, _, _)
\* defs.forEach(d => this.collectValueDefinition(d.kind, `${name}::${d.identifier}`, d.reference))
collectAll(v, name, defs, k) ==
  IF k > Len(defs) THEN v
  ELSE collectAll(collectValueDefinition(v, defs[k].kind,
                                         Namespaced(name, defs[k].identifier),
                                         defs[k].reference, Undefined),
                  name, defs, k + 1)

\* one step of innerModuleTable.forEach: the entry of the k-th key, read as
\* it is now: table.valueDefinitions.filter(d => !d.scope).forEach(...)
copyEntry(v, inner, name, k) ==
  LET entry == v.objects[inner.at[inner.keys[k]]]
      unscoped == SelectSeq(entry.valueDefinitions, LAMBDA d : Falsy(d.scope))
  IN collectAll(v, name, unscoped, 1)

RECURSIVE copyUnscoped(_, _, _, _, _)
\* innerModuleTable.forEach(...) over the keys lo..hi, in insertion order
copyUnscoped(v, inner, name, lo, hi) ==
  IF lo > hi \/ Len(v.objects) < 0 THEN v
  ELSE IF lo = hi THEN copyEntry(v, inner, name, lo)
  ELSE LET mid == (lo + hi) \div 2
           w == copyUnscoped(v, inner, name, lo, mid)
       IN copyUnscoped(w, inner, name, mid + 1, hi)

exitModuleDef(v, def) ==
  LET innerModuleTable == v.maps[v.currentTable]
      w == updateCurrentModule([v EXCEPT !.moduleStack = Pop(@)])
  IN IF Len(w.moduleStack) > 0
     THEN collectValueDefinition(copyUnscoped(w, innerModuleTable, def.module.name, 1,
                                              Len(innerModuleTable.keys)),
                                 "module", def.module.name, BigInt(def.id), Undefined)
     ELSE w

enterVar(v, def) == collectValueDefinition(v, def.kind, def.name, BigInt(def.id), Undefined)

enterConst(v, def) == collectValueDefinition(v, def.kind, def.name, BigInt(def.id), Undefined)

enterOpDef(v, def) ==
  IF Len(v.scopeStack) > 0
  THEN collectValueDefinition(v, def.kind, def.name, BigInt(def.id),
                              BigInt(Top(v.scopeStack)))
  ELSE collectValueDefinition(v, def.kind, def.name, BigInt(def.id), Undefined)

enterTypeDef(v, def) == collectTypeDefinition(v, def.name, def.type, BigInt(def.id))

enterAssume(v, def) ==
  collectValueDefinition(v, "assumption", def.name, BigInt(def.id), Undefined)

RECURSIVE collectParams(_, _, _, _)
\* expr.params.forEach(p => this.collectValueDefinition('param', p, expr.id, expr.id))
collectParams(v, params, id, k) ==
  IF k > Len(params) THEN v
  ELSE collectParams(collectValueDefinition(v, "param", params[k], BigInt(id), BigInt(id)),
                     params, id, k + 1)

enterLambda(v, expr) == collectParams(v, expr.params, expr.id, 1)

enterLet(v, def) == [v EXCEPT !.scopeStack = Append(@, def.id)]

\* exitLet leaving the scope on the stack
exitLetKeep(v) == v

exitLet(v) == [v EXCEPT !.scopeStack = Pop(@)]

(***************************************************************************)
(* collectDefinitions: a new visitor, and walkModule calling it on every   *)
(* node of the module, a definition before its body, a let before its      *)
(* operator and its body, every node with an id of its own.                *)
(***************************************************************************)
Visitor ==
  [objects |-> objects, maps |-> maps, tables |-> tables,
   currentModuleName |-> currentModuleName, currentTable |-> currentTable,
   moduleStack |-> moduleStack, scopeStack |-> scopeStack]

Becomes(v) ==
  /\ objects' = v.objects
  /\ maps' = v.maps
  /\ tables' = v.tables
  /\ currentModuleName' = v.currentModuleName
  /\ currentTable' = v.currentTable
  /\ moduleStack' = v.moduleStack
  /\ scopeStack' = v.scopeStack

\* identifiers of declarations and parameters; names of modules
Identifiers == {"x", "_", "size"}

\* the nodes that may have the id 0
ZeroIdKinds == {"lambda", "let"}

\* the sizes of the modules walked: modules nested deep with a declaration;
\* two modules with declarations; two modules with a declaration, a lambda, a
\* let and a node of id 0; one module with lambdas and lets in lets
Budgets ==
  { [modules |-> MaxModules, decls |-> MaxDecls - 1, lambdas |-> 0, lets |-> 0,
     zero |-> 0],
    [modules |-> MaxModules - 1, decls |-> MaxDecls, lambdas |-> 0, lets |-> 0,
     zero |-> 0],
    [modules |-> MaxModules - 1, decls |-> MaxDecls - 1, lambdas |-> MaxLambdas,
     lets |-> MaxLets - 1, zero |-> 1],
    [modules |-> MaxModules - 2, decls |-> MaxDecls, lambdas |-> MaxLambdas,
     lets |-> MaxLets, zero |-> 0] }
ModuleNames == {"A", "B"}

NoEvent == [kind |-> "none", name |-> "", id |-> 0]
NoExit == [inner |-> "", outer |-> ""]

CollectIdle ==
  /\ objects = <<>>
  /\ maps = <<>>
  /\ tables = <<>>
  /\ currentModuleName = ""
  /\ currentTable = 0
  /\ moduleStack = <<>>
  /\ scopeStack = <<>>
  /\ open = <<>>
  /\ inExpr = FALSE
  /\ walked = [modules |-> 0, decls |-> 0, lambdas |-> 0, lets |-> 0, zero |-> 0]
  /\ lastId = 0
  /\ lastEvent = NoEvent
  /\ lastExit = NoExit
  /\ instances = {}

FlattenIdle ==
  /\ module = Undefined
  /\ table = <<>>
  /\ modules = <<>>
  /\ idGenerator = 0
  /\ acc = <<>>
  /\ origin = <<>>
  /\ i = 0
  /\ j = 0
  /\ status = "idle"
  /\ error = ""
  /\ result = Undefined

\* the constructor of DefinitionsCollectorVisitor, and walkModule not yet started
CollectInit ==
  /\ objects = defaultObjects
  /\ maps = <<defaultMap, emptyMap>>
  /\ tables = <<>>
  /\ currentModuleName = ""
  /\ currentTable = 2
  /\ moduleStack = <<>>
  /\ scopeStack = <<>>
  /\ open = <<>>
  /\ inExpr = FALSE
  /\ walked \in Budgets
  /\ lastId = 0
  /\ lastEvent = NoEvent
  /\ lastExit = NoExit
  /\ instances = {}

InModule == open # <<>> /\ Top(open).kind = "module"

InBody == open # <<>> /\ inExpr /\ lastEvent.kind # "enterLet"

\* the ids the next node may have: the next of the id generator, or 0, once,
\* for a lambda or a let
NodeIds(kind) ==
  {lastId + 1} \cup (IF kind \in ZeroIdKinds /\ walked.zero > 0 THEN {0} ELSE {})

Walked(kind, name, id) ==
  /\ lastEvent' = [kind |-> kind, name |-> name, id |-> id]
  /\ lastId' = IF id = 0 THEN lastId ELSE id

Declared ==
  /\ walked.decls > 0
  /\ walked' = [walked EXCEPT !.decls = @ - 1]

WalkEnterModule ==
  /\ walked.modules > 0
  /\ \/ open = <<>> /\ lastEvent = NoEvent
     \/ InModule
  /\ \E name \in ModuleNames :
       LET def == [kind |-> "module", module |-> [name |-> name], id |-> lastId + 1] IN
       /\ Becomes(enterModuleDef(Visitor, def))
       /\ open' = Append(open, [kind |-> "module", name |-> name, id |-> def.id])
       /\ Walked("enterModuleDef", name, def.id)
  /\ walked' = [walked EXCEPT !.modules = @ - 1]
  /\ inExpr' = FALSE
  /\ lastExit' = NoExit
  /\ UNCHANGED <<nonCollect, instances>>

WalkExitModule ==
  /\ InModule
  /\ LET def == [kind |-> "module", module |-> [name |-> Top(open).name],
                 id |-> Top(open).id]
         v == exitModuleDef(Visitor, def)
     IN /\ Becomes(v)
        /\ lastEvent' = [kind |-> "exitModuleDef", name |-> def.module.name, id |-> def.id]
        /\ lastExit' = IF Len(v.moduleStack) > 0
                       THEN [inner |-> def.module.name, outer |-> Top(v.moduleStack)]
                       ELSE NoExit
  /\ open' = Pop(open)
  /\ inExpr' = FALSE
  /\ UNCHANGED <<nonCollect, instances, walked, lastId>>

WalkVar ==
  /\ InModule
  /\ Declared
  /\ \E name \in Identifiers :
       LET def == [kind |-> "var", name |-> name, id |-> lastId + 1] IN
       /\ Becomes(enterVar(Visitor, def))
       /\ Walked("enterVar", name, def.id)
  /\ inExpr' = FALSE
  /\ UNCHANGED <<nonCollect, instances, open, lastExit>>

WalkConst ==
  /\ InModule
  /\ Declared
  /\ \E name \in Identifiers :
       LET def == [kind |-> "const", name |-> name, id |-> lastId + 1] IN
       /\ Becomes(enterConst(Visitor, def))
       /\ Walked("enterConst", name, def.id)
  /\ inExpr' = FALSE
  /\ UNCHANGED <<nonCollect, instances, open, lastExit>>

WalkTypeDef ==
  /\ InModule
  /\ Declared
  /\ \E name \in Identifiers :
       LET def == [kind |-> "typedef", name |-> name, type |-> [kind |-> "int"],
                   id |-> lastId + 1] IN
       /\ Becomes(enterTypeDef(Visitor, def))
       /\ Walked("enterTypeDef", name, def.id)
  /\ inExpr' = FALSE
  /\ UNCHANGED <<nonCollect, instances, open, lastExit>>

WalkAssume ==
  /\ InModule
  /\ Declared
  /\ \E name \in Identifiers :
       LET def == [kind |-> "assume", name |-> name, id |-> lastId + 1] IN
       /\ Becomes(enterAssume(Visitor, def))
       /\ Walked("enterAssume", name, def.id)
  /\ inExpr' = TRUE
  /\ UNCHANGED <<nonCollect, instances, open, lastExit>>

\* an operator definition of the module, or the operator a let binds
WalkOpDef ==
  /\ \/ InModule /\ Declared
     \/ open # <<>> /\ lastEvent.kind = "enterLet" /\ UNCHANGED walked
  /\ \E name \in Identifiers :
       LET def == [kind |-> "def", name |-> name, id |-> lastId + 1] IN
       /\ Becomes(enterOpDef(Visitor, def))
       /\ Walked("enterOpDef", name, def.id)
  /\ inExpr' = TRUE
  /\ UNCHANGED <<nonCollect, instances, open, lastExit>>

\* an instance declaration: the visitor has no method for it
WalkInstance ==
  /\ InModule
  /\ Declared
  /\ \E name \in Identifiers :
       LET def == [kind |-> "instance", name |-> name, id |-> lastId + 1] IN
       /\ instances' = instances \cup {[module |-> Top(open).name, name |-> def.name]}
       /\ Walked("instance", name, def.id)
  /\ inExpr' = FALSE
  /\ UNCHANGED <<nonCollect, objects, maps, tables, currentModuleName, currentTable,
                 moduleStack, scopeStack, open, lastExit>>

WalkLambda ==
  /\ InBody
  /\ walked.lambdas > 0
  /\ \E params \in {<<n>> : n \in Identifiers} \cup {<<"x", "_">>}, id \in NodeIds("lambda") :
       LET expr == [kind |-> "lambda", params |-> params, id |-> id] IN
       /\ Becomes(enterLambda(Visitor, expr))
       /\ Walked("enterLambda", params[1], expr.id)
       /\ walked' = [walked EXCEPT !.lambdas = @ - 1,
                                   !.zero = IF id = 0 THEN @ - 1 ELSE @]
  /\ UNCHANGED <<nonCollect, instances, open, inExpr, lastExit>>

WalkEnterLet ==
  /\ InBody
  /\ walked.lets > 0
  /\ \E id \in NodeIds("let") :
       LET def == [kind |-> "let", id |-> id] IN
       /\ Becomes(enterLet(Visitor, def))
       /\ open' = Append(open, [kind |-> "let", name |-> "", id |-> def.id])
       /\ Walked("enterLet", "", def.id)
       /\ walked' = [walked EXCEPT !.lets = @ - 1,
                                   !.zero = IF id = 0 THEN @ - 1 ELSE @]
  /\ UNCHANGED <<nonCollect, instances, inExpr, lastExit>>

WalkExitLet ==
  /\ open # <<>>
  /\ Top(open).kind = "let"
  /\ lastEvent.kind # "enterLet"
  /\ Becomes(exitLet(Visitor))
  /\ open' = Pop(open)
  /\ lastEvent' = [kind |-> "exitLet", name |-> "", id |-> Top(open).id]
  /\ UNCHANGED <<nonCollect, instances, inExpr, walked, lastId, lastExit>>

CollectNext ==
  \/ WalkEnterModule
  \/ WalkExitModule
  \/ WalkVar
  \/ WalkConst
  \/ WalkTypeDef
  \/ WalkAssume
  \/ WalkOpDef
  \/ WalkInstance
  \/ WalkLambda
  \/ WalkEnterLet
  \/ WalkExitLet

(***************************************************************************)
(* Type alias inlining.  A recursion deeper than MaxCallDepth ends with    *)
(* the engine's RangeError, which is what a cyclic alias makes of it.      *)
(***************************************************************************)
MaxCallDepth == 8

RangeError == [kind |-> "RangeError"]

\* resolveAlias taking one alias step only
resolveAliasOnce(table_, type, depth) ==
  IF type.kind = "const" /\ type.id # 0
  THEN IF type.id \in DOMAIN table_ /\ isAnnotatedDef(table_[type.id])
       THEN table_[type.id].typeAnnotation
       ELSE type
  ELSE type

RECURSIVE resolveAlias(_, _, _)
resolveAlias(table_, type, depth) ==
  IF depth > MaxCallDepth THEN RangeError
  ELSE IF type.kind = "const" /\ type.id # 0
       THEN IF type.id \in DOMAIN table_ /\ isAnnotatedDef(table_[type.id])
            THEN resolveAlias(table_, table_[type.id].typeAnnotation, depth + 1)
            ELSE type
       ELSE type

\* AliasInliner.enterType
enterType(table_, type, depth) == resolveAlias(table_, type, depth)

RECURSIVE transformType(_, _, _)
\* transformType of the IR transformer: enterType on the type, then the
\* types inside what it returned
transformType(table_, type, depth) ==
  LET newType == enterType(table_, type, depth) IN
  IF newType = RangeError THEN RangeError
  ELSE CASE newType.kind \in {"set", "list"} ->
              LET elem == transformType(table_, newType.elem, depth + 1) IN
              IF elem = RangeError THEN RangeError ELSE [newType EXCEPT !.elem = elem]
         [] newType.kind = "fun" ->
              LET arg == transformType(table_, newType.arg, depth + 1)
                  res == transformType(table_, newType.res, depth + 1)
              IN IF arg = RangeError \/ res = RangeError THEN RangeError
                 ELSE [newType EXCEPT !.arg = arg, !.res = res]
         [] OTHER -> newType

inlineAliasesInType(type, table_) == transformType(table_, type, 0)

\* transformDefinition of the IR transformer: the type of a type definition,
\* the type annotation of another definition
transformDefinition(table_, def) ==
  IF def.kind = "typedef"
  THEN IF def.type = Undefined THEN def
       ELSE LET type == transformType(table_, def.type, 0) IN
            IF type = RangeError THEN RangeError ELSE [def EXCEPT !.type = type]
  ELSE IF isAnnotatedDef(def)
       THEN LET type == transformType(table_, def.typeAnnotation, 0) IN
            IF type = RangeError THEN RangeError ELSE [def EXCEPT !.typeAnnotation = type]
       ELSE def

inlineAliasesInModule(quintModule, table_) ==
  LET defs == [k \in DOMAIN quintModule.defs |-> transformDefinition(table_, quintModule.defs[k])]
  IN IF \E k \in DOMAIN defs : defs[k] = RangeError THEN RangeError
     ELSE [quintModule EXCEPT !.defs = defs]

\* inlineTypeAliases returning the entries with a type annotation only
inlineTypeAliasesAnnotated(modules_, table_) ==
  [status |-> "returned",
   modules |-> modules_,
   table |-> [id \in { k \in DOMAIN table_ : isAnnotatedDef(table_[k]) } |-> table_[id]]]

\* inlineTypeAliases: the modules and the table it returns, or the error thrown
inlineTypeAliases(modules_, table_) ==
  LET modulesWithInlinedAliases ==
        [k \in DOMAIN modules_ |-> inlineAliasesInModule(modules_[k], table_)]
      tableWithInlinedAliases ==
        [id \in DOMAIN table_ |->
           IF ~isAnnotatedDef(table_[id]) THEN table_[id]
           ELSE LET inlinedType == inlineAliasesInType(table_[id].typeAnnotation, table_) IN
                IF inlinedType = RangeError THEN RangeError
                ELSE [table_[id] EXCEPT !.typeAnnotation = inlinedType]]
  IN IF \/ \E k \in DOMAIN modules_ : modulesWithInlinedAliases[k] = RangeError
        \/ \E id \in DOMAIN table_ : tableWithInlinedAliases[id] = RangeError
     THEN [status |-> "thrown", modules |-> <<>>, table |-> <<>>]
     ELSE [status |-> "returned", modules |-> modulesWithInlinedAliases,
           table |-> tableWithInlinedAliases]

(***************************************************************************)
(* The inputs: a module W with type T1, type T2, type T3 and var v, each   *)
(* with one of a few declarations, and the table the name resolver makes   *)
(* for it: every reference to a declared type with the type's definition,  *)
(* the reference to v, and an operator without annotation.                 *)
(***************************************************************************)
T1Types == {TConst("T2", 1), TSet(TConst("T2", 1), 2), TInt(3), Undefined, TConst("T1", 1)}

T2Types == {TConst("T3", 4), TInt(5), Undefined, TConst("T1", 4)}

T3Types == {TInt(6), Undefined, TSet(TInt(6), 7)}

VTypes ==
  {TConst("T1", 8), TFun(TConst("T1", 8), TConst("T3", 9), 10), TConst("T9", 8),
   TSet(TConst("T2", 8), 10)}

\* the references the table may lack
AbsentRefs == {0, 1, 8}

RECURSIVE ConstsOf(_)
\* the named types in a type
ConstsOf(type) ==
  IF type = Undefined THEN {}
  ELSE CASE type.kind = "const" -> {type}
         [] type.kind \in {"set", "list"} -> ConstsOf(type.elem)
         [] type.kind = "fun" -> ConstsOf(type.arg) \cup ConstsOf(type.res)
         [] OTHER -> {}

AliasModule(t1, t2, t3, tv) ==
  Module("W", <<DTypeDef("T1", t1, 11), DTypeDef("T2", t2, 12), DTypeDef("T3", t3, 13),
                DVar("v", tv, 14)>>, 16)

\* the definition the table holds for a reference to a type declaration
TypeEntry(def) ==
  [kind |-> "typedef", name |-> def.name, id |-> def.id, typeAnnotation |-> def.type]

AliasTable(t1, t2, t3, tv, absent) ==
  LET defs == AliasModule(t1, t2, t3, tv).defs
      declared == [n \in {"T1", "T2", "T3"} |->
                     CHOOSE k \in 1..3 : defs[k].name = n]
      refs == { c \in UNION {ConstsOf(t1), ConstsOf(t2), ConstsOf(t3), ConstsOf(tv)} :
                  c.name \in DOMAIN declared /\ c.id # absent }
      ids == { c.id : c \in refs } \cup {15, 17}
  IN [id \in ids |->
        IF id = 15 THEN defs[4]
        ELSE IF id = 17 THEN [kind |-> "def", name |-> "f", id |-> 18]
        ELSE TypeEntry(defs[declared[(CHOOSE c \in refs : c.id = id).name]])]

NotYet == [status |-> "none"]

AliasIdle ==
  /\ lookupTable = <<>>
  /\ aliasModules = <<>>
  /\ aliasType = Undefined
  /\ resolved = NotYet
  /\ inlined = NotYet
  /\ reinlined = NotYet

AliasInit ==
  /\ \E t1 \in T1Types, t2 \in T2Types, t3 \in T3Types, tv \in VTypes, absent \in AbsentRefs :
       /\ lookupTable = AliasTable(t1, t2, t3, tv, absent)
       /\ aliasModules = <<AliasModule(t1, t2, t3, tv)>>
       /\ aliasType \in ConstsOf(tv) \cup ConstsOf(t1)
  /\ resolved = NotYet
  /\ inlined = NotYet
  /\ reinlined = NotYet

\* a call of resolveAlias
AliasResolve ==
  /\ resolved = NotYet
  /\ resolved' = LET type == resolveAlias(lookupTable, aliasType, 0) IN
                 IF type = RangeError THEN [status |-> "thrown", type |-> Undefined]
                 ELSE [status |-> "returned", type |-> type]
  /\ UNCHANGED <<nonAlias, lookupTable, aliasModules, aliasType, inlined, reinlined>>

\* a call of inlineTypeAliases
AliasInline ==
  /\ inlined = NotYet
  /\ inlined' = inlineTypeAliases(aliasModules, lookupTable)
  /\ UNCHANGED <<nonAlias, lookupTable, aliasModules, aliasType, resolved, reinlined>>

\* a call of inlineTypeAliases on what it returned
AliasInlineAgain ==
  /\ inlined # NotYet
  /\ inlined.status = "returned"
  /\ reinlined = NotYet
  /\ reinlined' = inlineTypeAliases(inlined.modules, inlined.table)
  /\ UNCHANGED <<nonAlias, lookupTable, aliasModules, aliasType, resolved, inlined>>

AliasNext ==
  \/ AliasResolve
  \/ AliasInline
  \/ AliasInlineAgain

(***************************************************************************)
(* The import resolver, on the tables of its tests.                        *)
(***************************************************************************)
MaxImports == 2

moduleName == "wrapper"

ValueDef(kind, identifier, reference, scope) ==
  [kind |-> kind, identifier |-> identifier, reference |-> reference, scope |-> scope]

DefTable(defs) == [valueDefinitions |-> defs, typeDefinitions |-> <<>>]

\* const table of the tests
testModuleTable ==
  [k \in {"a", "b", "c", "nested_module", "unexisting_module"} |->
     CASE k = "a" -> DefTable(<<ValueDef("def", "a", BigInt(1), Undefined)>>)
       [] k = "b" -> DefTable(<<ValueDef("def", "b", BigInt(2), Undefined)>>)
       [] k = "c" -> DefTable(<<ValueDef("def", "c", BigInt(3), BigInt(10))>>)
       [] k = "nested_module" ->
            DefTable(<<ValueDef("module", "nested_module", BigInt(4), Undefined)>>)
       [] k = "unexisting_module" ->
            DefTable(<<ValueDef("module", "unexisting_module", BigInt(5), Undefined)>>)]

nestedModuleTable ==
  [k \in {"d", "e"} |->
     CASE k = "d" -> DefTable(<<ValueDef("def", "d", BigInt(1), Undefined)>>)
       [] k = "e" -> DefTable(<<ValueDef("def", "e", BigInt(2), BigInt(10))>>)]

\* const tables of the tests
testTables ==
  [m \in {"wrapper", "test_module", "nested_module"} |->
     CASE m = "wrapper" -> <<>>
       [] m = "test_module" -> testModuleTable
       [] m = "nested_module" -> nestedModuleTable]

\* the same, with an identifier of test_module defined both at module level
\* and in a scope, and the importing module's table holding a builtin `a`
mixedTables ==
  [testTables EXCEPT
     !["test_module"] =
        ("m" :> DefTable(<<ValueDef("def", "m", BigInt(6), Undefined),
                           ValueDef("param", "m", BigInt(7), BigInt(7))>>)) @@ @,
     !["wrapper"] = ("a" :> DefTable(<<ValueDef("def", "a", Undefined, Undefined)>>))]

ImportDecl(name, path, id) == [kind |-> "import", name |-> name, path |-> path, id |-> id]

InstanceDecl(name, protoName, overrides, id) ==
  [kind |-> "instance", name |-> name, protoName |-> protoName,
   overrides |-> overrides, id |-> id]

\* the declarations of the tests, an import of a name test_module has not,
\* and a wildcard import of nested_module
ImportPool ==
  { ImportDecl("a", "test_module", 21),
    ImportDecl("*", "test_module", 22),
    ImportDecl("*", "unexisting_module", 23),
    InstanceDecl("test_module_instance", "test_module", <<"a", "b">>, 24),
    InstanceDecl("test_module_instance", "unexisting_module", <<"a", "b">>, 25),
    ImportDecl("unexisting_module", "test_module", 26),
    ImportDecl("nested_module", "test_module", 27),
    ImportDecl("y", "test_module", 28),
    ImportDecl("*", "nested_module", 29) }

\* an entry exported when one of its definitions is unscoped
UnscopedSome(entry) ==
  \E k \in DOMAIN entry.valueDefinitions : entry.valueDefinitions[k].scope = Undefined

\* an entry is exported when its definitions are all unscoped
Unscoped(entry) ==
  \A k \in DOMAIN entry.valueDefinitions : entry.valueDefinitions[k].scope = Undefined

Exported(table_) == { k \in DOMAIN table_ : Unscoped(table_[k]) }

\* the entries of a table copied into another, the copies winning
MergeInto(into, from, keys) == [k \in keys |-> from[k]] @@ into

\* the entries of a table copied into another under a prefix
MergePrefixed(into, from, keys, prefix) ==
  [k \in { Namespaced(prefix, key) : key \in keys } |->
     from[CHOOSE key \in keys : Namespaced(prefix, key) = k]] @@ into

IsModuleEntry(entry) ==
  \E k \in DOMAIN entry.valueDefinitions : entry.valueDefinitions[k].kind = "module"

\* errors.push, of a resolver that stops at the first error
pushFirstError(errors, e) == IF errors = <<>> THEN <<e>> ELSE errors

\* errors.push
pushError(errors, e) == Append(errors, e)

ImportIdle ==
  /\ importTables = <<>>
  /\ importDefs = <<>>
  /\ importPos = 0
  /\ importErrors = <<>>
  /\ importResult = NotYet

ImportInit ==
  /\ importTables \in {testTables, mixedTables}
  /\ importDefs \in UNION { [1..n -> ImportPool] : n \in 0..MaxImports }
  /\ importPos = 1
  /\ importErrors = <<>>
  /\ importResult = NotYet

AtDecl == importResult = NotYet /\ importPos <= Len(importDefs)

Resolved(wrapper) ==
  /\ importTables' = [importTables EXCEPT ![moduleName] = wrapper]
  /\ importPos' = importPos + 1
  /\ UNCHANGED <<nonImport, importDefs, importErrors, importResult>>

Failed(e) ==
  /\ importErrors' = pushError(importErrors, e)
  /\ importPos' = importPos + 1
  /\ UNCHANGED <<nonImport, importTables, importDefs, importResult>>

\* import M.x, x a definition or a module nested in M
ResolveImport ==
  /\ AtDecl
  /\ LET def == importDefs[importPos] IN
     /\ def.kind = "import"
     /\ def.name # "*"
     /\ IF def.path \notin DOMAIN importTables
        THEN Failed([moduleName |-> def.path])
        ELSE LET from == importTables[def.path] IN
             IF def.name \notin DOMAIN from
             THEN Failed([moduleName |-> def.path, defName |-> def.name])
             ELSE IF IsModuleEntry(from[def.name])
                  THEN IF def.name \notin DOMAIN importTables
                       THEN Failed([moduleName |-> def.path, defName |-> def.name])
                       ELSE Resolved(MergePrefixed(importTables[moduleName],
                                                   importTables[def.name],
                                                   Exported(importTables[def.name]),
                                                   def.name))
                  ELSE Resolved(MergeInto(importTables[moduleName], from, {def.name}))

\* import M.*
ResolveWildcard ==
  /\ AtDecl
  /\ LET def == importDefs[importPos] IN
     /\ def.kind = "import"
     /\ def.name = "*"
     /\ IF def.path \notin DOMAIN importTables
        THEN Failed([moduleName |-> def.path])
        ELSE LET from == importTables[def.path] IN
             Resolved(MergeInto(importTables[moduleName], from, Exported(from)))

\* module N = M(p1 = e1, ...)
ResolveInstance ==
  /\ AtDecl
  /\ LET def == importDefs[importPos] IN
     /\ def.kind = "instance"
     /\ IF def.protoName \notin DOMAIN importTables
        THEN Failed([moduleName |-> def.protoName])
        ELSE LET from == importTables[def.protoName] IN
             Resolved(MergePrefixed(importTables[moduleName], from, Exported(from), def.name))

\* the result: the tables, or the errors and no table
ResolveReturn ==
  /\ importResult = NotYet
  /\ importPos > Len(importDefs)
  /\ importResult' = IF importErrors = <<>>
                     THEN [kind |-> "ok", definitions |-> importTables]
                     ELSE [kind |-> "error", errors |-> importErrors]
  /\ UNCHANGED <<nonImport, importTables, importDefs, importPos, importErrors>>

ImportNext ==
  \/ ResolveImport
  \/ ResolveWildcard
  \/ ResolveInstance
  \/ ResolveReturn

(***************************************************************************)
(* Substitutions of effects and of effect variables.                       *)
(***************************************************************************)
MaxSubs == 2

\* Variables: a list of state variables, a quantified name, a union
VConcrete(vs) == [kind |-> "concrete", vars |-> vs]

VQuantified(n) == [kind |-> "quantified", name |-> n]

VUnion(vs) == [kind |-> "union", variables |-> vs]

\* Effect: a quantified name, an arrow, a concrete effect
EffQuantified(n) == [kind |-> "quantified", name |-> n]

EffArrow(ps, r) == [kind |-> "arrow", params |-> ps, result |-> r]

EffConcrete(r, u) == [kind |-> "concrete", read |-> r, update |-> u]

\* Substitution
SubVariable(n, v) == [kind |-> "variable", name |-> n, value |-> v]

SubEffect(n, e) == [kind |-> "effect", name |-> n, value |-> e]

\* subs.find(s => s.name === name): the first substitution of that name
find(ss, name) ==
  LET found == {k \in 1..Len(ss) : ss[k].name = name} IN
  IF found = {} THEN Undefined
  ELSE ss[CHOOSE k \in found : \A l \in found : k <= l]

RECURSIVE applySubstitutionToVariables(_, _)

applySubstitutionToVariables(ss, variables) ==
  CASE variables.kind = "quantified" ->
         LET sub == find(ss, variables.name) IN
         IF sub # Undefined /\ sub.kind = "variable" THEN sub.value ELSE variables
    [] variables.kind = "union" ->
         VUnion([k \in 1..Len(variables.variables) |->
                   applySubstitutionToVariables(ss, variables.variables[k])])
    [] OTHER -> variables

\* the simplification of a concrete effect, left uninterpreted
simplifyConcreteEffect(e) == [kind |-> "simplified", effect |-> e]

RECURSIVE applySubstitution(_, _)

applySubstitution(ss, e) ==
  LET effect ==
        CASE e.kind = "quantified" ->
               LET sub == find(ss, e.name) IN
               IF sub # Undefined /\ sub.kind = "effect" THEN sub.value ELSE e
          [] e.kind = "arrow" ->
               EffArrow([k \in 1..Len(e.params) |-> applySubstitution(ss, e.params[k])],
                        applySubstitution(ss, e.result))
          [] e.kind = "concrete" ->
               EffConcrete(applySubstitutionToVariables(ss, e.read),
                           applySubstitutionToVariables(ss, e.update))
          [] OTHER -> e
  IN IF effect.kind = "concrete" THEN simplifyConcreteEffect(effect) ELSE effect

\* the substitutions the lists are made of
SubstitutionPool ==
  { SubVariable("n", VConcrete(<<"x">>)),
    SubEffect("n", EffQuantified("e0")),
    SubVariable("m", VQuantified("n")),
    SubEffect("e", EffArrow(<<EffQuantified("n")>>, EffQuantified("e0"))),
    SubVariable("n", VConcrete(<<"y">>)) }

SubstitutionLists ==
  UNION {[1..k -> SubstitutionPool] : k \in 0..MaxSubs}

VariablesPool ==
  { VQuantified("n"),
    VQuantified("m"),
    VConcrete(<<"z">>),
    VUnion(<<VQuantified("n"), VConcrete(<<"z">>)>>),
    VUnion(<<VUnion(<<VQuantified("n"), VQuantified("m")>>), VQuantified("k")>>) }

EffectPool ==
  { EffQuantified("n"),
    EffQuantified("e"),
    EffArrow(<<EffQuantified("e"), EffQuantified("k")>>, EffQuantified("n")),
    EffConcrete(VQuantified("n"), VConcrete(<<"z">>)) }

SubstIdle ==
  /\ subs = <<>>
  /\ substTarget = NotYet
  /\ substResult = NotYet

SubstInit ==
  /\ subs \in SubstitutionLists
  /\ substTarget \in
       {[kind |-> "variables", value |-> v] : v \in VariablesPool}
         \cup {[kind |-> "effect", value |-> e] : e \in EffectPool}
  /\ substResult = NotYet

\* a call of applySubstitutionToVariables
ApplyToVariables ==
  /\ substResult = NotYet
  /\ substTarget.kind = "variables"
  /\ substResult' = [status |-> "returned",
                     value |-> applySubstitutionToVariables(subs, substTarget.value)]
  /\ UNCHANGED <<nonSubst, subs, substTarget>>

\* a call of applySubstitution
ApplyToEffect ==
  /\ substResult = NotYet
  /\ substTarget.kind = "effect"
  /\ substResult' = [status |-> "returned",
                     value |-> applySubstitution(subs, substTarget.value)]
  /\ UNCHANGED <<nonSubst, subs, substTarget>>

SubstNext ==
  \/ ApplyToVariables
  \/ ApplyToEffect

(***************************************************************************)
(* The single-table collector of definitions.                              *)
(***************************************************************************)
MaxCalls == 3

\* the names of the array literal bound to defaultDefinitions
flatBuiltinNames ==
  << "not", "and", "or", "iff", "implies", "exists", "guess", "forall", "in",
     "notin", "union", "contains", "fold", "intersect", "exclude", "subseteq",
     "map", "applyTo", "filter", "powerset", "flatten", "seqs", "choose_some",
     "isFinite", "cardinality", "get", "put", "keys", "mapOf", "setOfMaps",
     "update", "updateAs", "fields", "with", "tuples", "append", "concat",
     "head", "tail", "length", "nth", "indices", "replaceAt", "slice",
     "select", "foldl", "foldr", "to", "always", "eventually", "next",
     "stutter", "nostutter", "enabled", "weakFair", "strongFair",
     "guarantees", "exists_const", "forall_const", "choose_const", "Bool",
     "Int", "Nat", "TRUE", "FALSE" >>

\* a name definition without a scope, and one with
NameDefinition(kind, identifier) == [kind |-> kind, identifier |-> identifier]

ScopedDefinition(kind, identifier, scope) ==
  [kind |-> kind, identifier |-> identifier, scope |-> scope]

\* the array literal bound to defaultDefinitions, as written
defaultDefinitionsLiteral ==
  [k \in 1..Len(flatBuiltinNames) |-> NameDefinition("def", flatBuiltinNames[k])]

RECURSIVE collectFromExpr(_)
RECURSIVE collectFromExprs(_)

collectFromExpr(expr) ==
  CASE expr.kind = "lambda" ->
         [k \in 1..Len(expr.params) |->
            ScopedDefinition("def", expr.params[k], expr.id)]
           \o collectFromExpr(expr.expr)
    [] expr.kind = "app" -> collectFromExprs(expr.args)
    [] expr.kind = "let" ->
         <<ScopedDefinition(expr.opdef.qualifier, expr.opdef.name, expr.id)>>
           \o collectFromExpr(expr.opdef.expr)
           \o collectFromExpr(expr.expr)
    [] OTHER -> <<>>

\* exprs.flatMap(collectFromExpr)
collectFromExprs(exprs) ==
  IF exprs = <<>> THEN <<>>
  ELSE collectFromExpr(Head(exprs)) \o collectFromExprs(Tail(exprs))

\* one step of the reduction: the table after the definition
collectFromDef(tbl, def) ==
  CASE def.kind \in {"const", "var"} ->
         [tbl EXCEPT !.nameDefinitions =
            Append(@, NameDefinition(def.kind, def.name))]
    [] def.kind = "def" ->
         [tbl EXCEPT !.nameDefinitions =
            Append(@, NameDefinition(def.kind, def.name))
              \o (IF def.expr # Undefined THEN collectFromExpr(def.expr) ELSE <<>>)]
    [] def.kind = "instance" ->
         [tbl EXCEPT !.nameDefinitions =
            Append(@, NameDefinition("namespace", def.name))
              \o collectFromExprs([k \in 1..Len(def.overrides) |-> def.overrides[k][2]])]
    [] def.kind = "module" ->
         [tbl EXCEPT !.nameDefinitions =
            Append(@, NameDefinition("namespace", def.module.name))]
    [] def.kind = "typedef" ->
         [tbl EXCEPT !.typeDefinitions =
            Append(@, [identifier |-> def.name, type |-> def.type])]
    [] def.kind = "assume" ->
         [tbl EXCEPT !.nameDefinitions =
            Append(@, NameDefinition("assumption", def.name))
              \o (IF def.assumption # Undefined
                  THEN collectFromExpr(def.assumption) ELSE <<>>)]
    [] OTHER -> tbl

RECURSIVE reduceDefs(_, _)

\* tntModule.defs.reduce(..., table)
reduceDefs(defs, tbl) ==
  IF defs = <<>> THEN tbl
  ELSE reduceDefs(Tail(defs), collectFromDef(tbl, Head(defs)))

\* collectDefinitions: the reduction starts from the table whose
\* nameDefinitions is the array bound to defaultDefinitions itself, so the
\* pushes go to that array and the table returned holds that same array
collectDefinitions(array, tntModule) ==
  LET tbl == reduceDefs(tntModule.defs,
                          [nameDefinitions |-> array, typeDefinitions |-> <<>>])
  IN [array |-> tbl.nameDefinitions, typeDefinitions |-> tbl.typeDefinitions]

DModule(m, id) == [kind |-> "module", module |-> m, id |-> id]

\* the modules collected from
FlatModules ==
  { Module("Empty", <<>>, 31),
    Module("Imports", <<DImport("M", "*", 32)>>, 33),
    Module("Vars", <<DVar("x", TInt(34), 35), DConst("N", TInt(36), 37)>>, 38),
    Module("Types", <<DTypeDef("T", TInt(39), 40)>>, 41),
    Module("Ops",
           <<DOpDef("f", "def",
                    ELambda(<<"p">>,
                            ELet(DOpDef("g", "val", EInt(1, 42), Undefined, 43),
                                 EApp("iadd", <<EName("p", 44), EName("g", 45)>>, 46),
                                 47),
                            48),
                    Undefined, 49),
             DAssume("a", EName("x", 50), 51)>>, 52),
    Module("Nested",
           <<DModule(Module("Inner", <<>>, 53), 54),
             DInstance("I", "Inner", <<<<"N", ELambda(<<"q">>, EName("q", 55), 56)>>>>, 57)>>,
           58) }

FlatIdle ==
  /\ defaultDefinitionsArray = <<>>
  /\ returned = <<>>

FlatInit ==
  /\ defaultDefinitionsArray = defaultDefinitionsLiteral
  /\ returned = <<>>

\* a call of collectDefinitions; the table returned is recorded as it was
\* when the call returned
FlatCollect ==
  /\ Len(returned) < MaxCalls
  /\ \E m \in FlatModules :
       LET r == collectDefinitions(defaultDefinitionsArray, m) IN
       /\ defaultDefinitionsArray' = r.array
       /\ returned' = Append(returned, [module |-> m,
                                        nameDefinitions |-> r.array,
                                        typeDefinitions |-> r.typeDefinitions])
  /\ UNCHANGED nonFlat

FlatNext == FlatCollect

(***************************************************************************)
(* The evaluation Context.  consts and namespaces are immutable            *)
(* collections: an ImmutableMap is its set of entries, a List its items.   *)
(***************************************************************************)
MaxHistory == 2

ImmMap(entries) == [kind |-> "map", entries |-> entries]

ImmList(items) == [kind |-> "list", items |-> items]

\* new VarStorage()
newVarStorage == [varNames |-> {}]

\* the fields after the constructor
newContext ==
  [consts |-> ImmMap({}),
   namespaces |-> ImmList(<<>>),
   varStorage |-> newVarStorage,
   constHistory |-> <<>>,
   namespacesHistory |-> <<>>]

\* Array.pop: the last element, undefined of an empty array, and the rest
arrayPop(array) ==
  [value |-> IF array = <<>> THEN Undefined ELSE array[Len(array)],
   rest |-> IF array = <<>> THEN <<>> ELSE SubSeq(array, 1, Len(array) - 1)]

\* ImmutableMap.merge: the entries of the second replace those of the first
merge(first, second) ==
  ImmMap({e \in first.entries : \A f \in second.entries : f.id # e.id}
           \cup second.entries)

\* List.take
take(list, n) ==
  ImmList(SubSeq(list.items, 1, IF n < Len(list.items) THEN n ELSE Len(list.items)))

\* List.concat
concat(list, more) == ImmList(list.items \o more.items)

\* is of immutable: value equality
is(first, second) == first = second

reset(cx) == [cx EXCEPT !.varStorage = newVarStorage]

discoverVar(cx, id, name) ==
  [cx EXCEPT !.varStorage.varNames =
     {e \in @ : e.id # id} \cup {[id |-> id, name |-> name]}]

addConstants(cx, given) ==
  [cx EXCEPT !.constHistory = Append(@, cx.consts),
             !.consts = merge(cx.consts, given)]

removeConstants(cx) ==
  LET popped == arrayPop(cx.constHistory) IN
  [cx EXCEPT !.consts = popped.value, !.constHistory = popped.rest]

\* addNamespaces, of a Context that records nothing when it adds nothing
addNamespacesUnrecorded(cx, given) ==
  IF is(take(cx.namespaces, IF given = Undefined THEN 0 ELSE Len(given.items)), given)
  THEN cx
  ELSE [cx EXCEPT !.namespacesHistory = Append(@, cx.namespaces),
                  !.namespaces =
                     concat(cx.namespaces,
                            IF given = Undefined THEN ImmList(<<>>) ELSE given)]

addNamespaces(cx, given) ==
  LET pushed == [cx EXCEPT !.namespacesHistory = Append(@, cx.namespaces)] IN
  IF is(take(cx.namespaces, IF given = Undefined THEN 0 ELSE Len(given.items)), given)
  THEN pushed
  ELSE [pushed EXCEPT !.namespaces =
                         concat(cx.namespaces,
                                IF given = Undefined THEN ImmList(<<>>) ELSE given)]

removeNamespaces(cx) ==
  LET popped == arrayPop(cx.namespacesHistory) IN
  [cx EXCEPT !.namespaces = popped.value, !.namespacesHistory = popped.rest]

\* the constants given to addConstants
ConstantsPool ==
  { ImmMap({}),
    ImmMap({[id |-> 1, value |-> "a"]}),
    ImmMap({[id |-> 1, value |-> "b"], [id |-> 2, value |-> "a"]}) }

\* the namespaces given to addNamespaces
NamespacesPool ==
  { Undefined,
    ImmList(<<>>),
    ImmList(<<"A">>),
    ImmList(<<"A", "B">>),
    ImmList(<<"B">>) }

VarPool == {[id |-> 1, name |-> "x"], [id |-> 1, name |-> "y"]}

NoCall == [name |-> "none", given |-> Undefined, matched |-> Undefined]

Call(name, given, matched) == [name |-> name, given |-> given, matched |-> matched]

ContextIdle ==
  /\ context = NotYet
  /\ constsBefore = <<>>
  /\ namespacesBefore = <<>>
  /\ lastCall = NoCall

ContextInit ==
  /\ context = newContext
  /\ constsBefore = <<>>
  /\ namespacesBefore = <<>>
  /\ lastCall = NoCall

\* the calls are properly nested: a remove is made when an add is open; a
\* call on a field that is undefined throws
CallAddConstants ==
  /\ Len(constsBefore) < MaxHistory
  /\ context.consts # Undefined
  /\ \E given \in ConstantsPool :
       /\ context' = addConstants(context, given)
       /\ lastCall' = Call("addConstants", given, Undefined)
  /\ constsBefore' = Append(constsBefore, context.consts)
  /\ UNCHANGED <<nonContext, namespacesBefore>>

CallRemoveConstants ==
  /\ constsBefore # <<>>
  /\ context' = removeConstants(context)
  /\ lastCall' = Call("removeConstants", Undefined, Undefined)
  /\ constsBefore' = SubSeq(constsBefore, 1, Len(constsBefore) - 1)
  /\ UNCHANGED <<nonContext, namespacesBefore>>

CallAddNamespaces ==
  /\ Len(namespacesBefore) < MaxHistory
  /\ context.namespaces # Undefined
  /\ \E given \in NamespacesPool :
       /\ context' = addNamespaces(context, given)
       /\ lastCall' = Call("addNamespaces", given, Undefined)
       /\ namespacesBefore' =
            Append(namespacesBefore, [before |-> context.namespaces, given |-> given])
  /\ UNCHANGED <<nonContext, constsBefore>>

CallRemoveNamespaces ==
  /\ namespacesBefore # <<>>
  /\ context' = removeNamespaces(context)
  /\ lastCall' = Call("removeNamespaces", Undefined,
                      namespacesBefore[Len(namespacesBefore)])
  /\ namespacesBefore' = SubSeq(namespacesBefore, 1, Len(namespacesBefore) - 1)
  /\ UNCHANGED <<nonContext, constsBefore>>

CallDiscoverVar ==
  /\ \E v \in VarPool : context' = discoverVar(context, v.id, v.name)
  /\ lastCall' = Call("discoverVar", Undefined, Undefined)
  /\ UNCHANGED <<nonContext, constsBefore, namespacesBefore>>

CallReset ==
  /\ context' = reset(context)
  /\ lastCall' = Call("reset", Undefined, Undefined)
  /\ UNCHANGED <<nonContext, constsBefore, namespacesBefore>>

ContextNext ==
  \/ CallAddConstants
  \/ CallRemoveConstants
  \/ CallAddNamespaces
  \/ CallRemoveNamespaces
  \/ CallDiscoverVar
  \/ CallReset

InitCollect ==
  CollectInit /\ FlattenIdle /\ AliasIdle /\ ImportIdle /\ SubstIdle /\ FlatIdle
    /\ ContextIdle

SpecCollect == InitCollect /\ [][CollectNext]_vars

InitAlias ==
  AliasInit /\ FlattenIdle /\ CollectIdle /\ ImportIdle /\ SubstIdle /\ FlatIdle
    /\ ContextIdle

SpecAlias == InitAlias /\ [][AliasNext]_vars

InitImport ==
  ImportInit /\ FlattenIdle /\ CollectIdle /\ AliasIdle /\ SubstIdle /\ FlatIdle
    /\ ContextIdle

SpecImport == InitImport /\ [][ImportNext]_vars

InitSubst ==
  SubstInit /\ FlattenIdle /\ CollectIdle /\ AliasIdle /\ ImportIdle /\ FlatIdle
    /\ ContextIdle

SpecSubst == InitSubst /\ [][SubstNext]_vars

InitFlat ==
  FlatInit /\ FlattenIdle /\ CollectIdle /\ AliasIdle /\ ImportIdle /\ SubstIdle
    /\ ContextIdle

SpecFlat == InitFlat /\ [][FlatNext]_vars

InitContext ==
  ContextInit /\ FlattenIdle /\ CollectIdle /\ AliasIdle /\ ImportIdle /\ SubstIdle
    /\ FlatIdle

SpecContext == InitContext /\ [][ContextNext]_vars

Init ==
  FlattenInit /\ CollectIdle /\ AliasIdle /\ ImportIdle /\ SubstIdle /\ FlatIdle
    /\ ContextIdle

Next ==
  \/ FlattenEnter
  \/ FlattenKeep
  \/ FlattenOverrides
  \/ FlattenProtoDef
  \/ FlattenReturn

Spec == Init /\ [][Next]_vars


(***************************************************************************)
(* Vocabulary of the properties of flatten.                                *)
(***************************************************************************)
RECURSIVE IdsOfType(_)
RECURSIVE IdsOfExpr(_)

IdsOfRow(row) ==
  IF row.kind = "row"
  THEN UNION { IdsOfType(row.fields[k].fieldType) : k \in 1..Len(row.fields) }
  ELSE {}

IdsOfType(t) ==
  IF t = Undefined THEN {}
  ELSE {t.id} \cup
    CASE t.kind \in {"set", "list"} -> IdsOfType(t.elem)
      [] t.kind = "fun" -> IdsOfType(t.arg) \cup IdsOfType(t.res)
      [] t.kind = "oper" ->
           UNION { IdsOfType(t.args[k]) : k \in 1..Len(t.args) } \cup IdsOfType(t.res)
      [] t.kind \in {"tup", "rec"} -> IdsOfRow(t.fields)
      [] t.kind = "union" ->
           UNION { IdsOfRow(t.records[k].fields) : k \in 1..Len(t.records) }
      [] OTHER -> {}

IdsOfExpr(e) ==
  {e.id} \cup
    CASE e.kind = "app" -> UNION { IdsOfExpr(e.args[k]) : k \in 1..Len(e.args) }
      [] e.kind = "lambda" ->
           { e.params[k].id : k \in 1..Len(e.params) } \cup IdsOfExpr(e.expr)
      [] e.kind = "let" ->
           {e.opdef.id} \cup IdsOfExpr(e.opdef.expr) \cup IdsOfExpr(e.expr)
      [] OTHER -> {}

IdsOfDef(d) ==
  {d.id} \cup
    CASE d.kind = "def" -> IdsOfExpr(d.expr) \cup IdsOfType(d.typeAnnotation)
      [] d.kind = "assume" -> IdsOfExpr(d.assumption)
      [] d.kind \in {"const", "var"} -> IdsOfType(d.typeAnnotation)
      [] d.kind = "typedef" -> IdsOfType(d.type)
      [] d.kind = "instance" ->
           UNION { IdsOfExpr(d.overrides[k][1]) \cup IdsOfExpr(d.overrides[k][2])
                   : k \in 1..Len(d.overrides) }
      [] OTHER -> {}

IdsOfModule(m) == {m.id} \cup UNION { IdsOfDef(m.defs[k]) : k \in 1..Len(m.defs) }

\* the ids of the original nodes of every known module
OriginalIds == UNION { IdsOfModule(modules[n]) : n \in DOMAIN modules }

\* the ids the generator has handed out in this run
MintedIds == (newIdGenerator(lastIdOf(modules)) + 1)..idGenerator

IsInstance(d) == d.kind = "instance"

InstancesOf(m) == { k \in 1..Len(m.defs) : IsInstance(m.defs[k]) }

OverrideNames(d) == { d.overrides[k][1].name : k \in 1..Len(d.overrides) }

\* every instantiated prototype is known and holds no instance itself
PrototypesFlat ==
  \A k \in InstancesOf(module) :
    /\ module.defs[k].protoName \in DOMAIN modules
    /\ InstancesOf(modules[module.defs[k].protoName]) = {}

\* the definitions of defs at the positions where test holds, in order
RECURSIVE Positions(_, _, _)
Positions(og, from, k) ==
  IF k > Len(og) THEN <<>>
  ELSE (IF og[k].from = from THEN <<k>> ELSE <<>>) \o Positions(og, from, k + 1)

KeptDefs == LET ps == Positions(origin, "module", 1) IN [k \in 1..Len(ps) |-> acc[ps[k]]]

NonInstanceDefs(m) == SelectSeq(m.defs, LAMBDA d : ~IsInstance(d))

(***************************************************************************)
(* C1: in flatten the id generator is seeded strictly above the greatest   *)
(* id of any node of any module of `modules`, so that no id handed to a    *)
(* synthesized node is the id of an original node.                         *)
(***************************************************************************)
C1_FreshIds ==
  status # "called" =>
    /\ \A id \in OriginalIds : newIdGenerator(lastIdOf(modules)) >= id
    /\ MintedIds \cap OriginalIds = {}

(***************************************************************************)
(* C2: when every instantiated prototype is present and holds no instance, *)
(* the module flatten returns holds no instance, and the non-instance      *)
(* declarations of the input are kept in their order.                      *)
(***************************************************************************)
C2_NoInstanceLeft ==
  (status = "returned" /\ PrototypesFlat) =>
    /\ \A k \in 1..Len(result.defs) : ~IsInstance(result.defs[k])
    /\ KeptDefs = NonInstanceDefs(module)
    /\ result.defs = acc

C2_Witness ==
  /\ status = "returned" /\ PrototypesFlat
  /\ InstancesOf(module) # {}
  /\ Len(NonInstanceDefs(module)) >= 1
  /\ Len(result.defs) >= 4

(***************************************************************************)
(* C3: for every instance N = M(...) and every const, var, def, assume or  *)
(* typedef d of M whose name is no override parameter, the flattened       *)
(* module holds a definition named N::<d.name> of d's kind.                *)
(***************************************************************************)
C3_EveryProtoDefCopied ==
  status = "returned" =>
    \A k \in InstancesOf(module) :
      LET def == module.defs[k]
          proto == modules[def.protoName]
      IN \A n \in 1..Len(proto.defs) :
           LET d == proto.defs[n] IN
           (d.kind \in {"const", "var", "def", "assume", "typedef"}
              /\ d.name \notin OverrideNames(def)) =>
             \E q \in 1..Len(result.defs) :
               /\ result.defs[q].name = Namespaced(def.name, d.name)
               /\ result.defs[q].kind = d.kind


(***************************************************************************)
(* C4: every override (p, e) of an instance N yields one definition        *)
(* N::p of kind def whose body is e and whose annotation is that of the    *)
(* overridden constant with N:: put before every named type; the           *)
(* prototype's declaration of p is not copied as well.                     *)
(***************************************************************************)
RECURSIVE NormType(_, _)
\* the type t without its ids, prefix put before the name of every named type
NormRow(prefix, row) ==
  IF row.kind = "row"
  THEN [row EXCEPT !.fields =
          [k \in 1..Len(row.fields) |->
             [row.fields[k] EXCEPT !.fieldType = NormType(prefix, @)]]]
  ELSE row

NormType(prefix, t) ==
  LET u == [t EXCEPT !.id = 0] IN
  CASE t.kind = "const" -> [u EXCEPT !.name = prefix \o @]
    [] t.kind \in {"set", "list"} -> [u EXCEPT !.elem = NormType(prefix, @)]
    [] t.kind = "fun" ->
         [u EXCEPT !.arg = NormType(prefix, @), !.res = NormType(prefix, @)]
    [] t.kind = "oper" ->
         [u EXCEPT !.args = [k \in 1..Len(t.args) |-> NormType(prefix, t.args[k])],
                   !.res = NormType(prefix, @)]
    [] t.kind \in {"tup", "rec"} -> [u EXCEPT !.fields = NormRow(prefix, @)]
    [] t.kind = "union" ->
         [u EXCEPT !.records =
            [k \in 1..Len(t.records) |->
               [t.records[k] EXCEPT !.fields = NormRow(prefix, @)]]]
    [] OTHER -> u

OverrideEmitted(k, n, q) ==
  LET def == module.defs[k]
      param == def.overrides[n][1]
      constDef == table[param.id]
      new == result.defs[q]
  IN /\ new.kind = "def"
     /\ new.name = def.name \o "::" \o param.name
     /\ new.expr = def.overrides[n][2]
     /\ IF constDef.typeAnnotation = Undefined
        THEN new.typeAnnotation = Undefined
        ELSE /\ new.typeAnnotation # Undefined
             /\ NormType("", new.typeAnnotation)
                  = NormType(def.name \o "::", constDef.typeAnnotation)

C4_OverridesEmitted ==
  status = "returned" =>
    \A k \in InstancesOf(module) :
      \A n \in 1..Len(module.defs[k].overrides) :
        /\ \E q \in 1..Len(result.defs) :
             /\ origin[q] = [from |-> "override", i |-> k, k |-> n]
             /\ OverrideEmitted(k, n, q)
             /\ \A r \in 1..Len(result.defs) : origin[r] = origin[q] => r = q
        /\ \A q \in 1..Len(result.defs) :
             (origin[q].from = "proto" /\ origin[q].i = k) =>
               modules[module.defs[k].protoName].defs[origin[q].k].name
                 # module.defs[k].overrides[n][1].name

C4_Witness ==
  /\ status = "returned"
  /\ \E k \in InstancesOf(module) :
       /\ module.defs[k].overrides # <<>>
       /\ table[module.defs[k].overrides[1][1].id].typeAnnotation.kind = "union"
       /\ \E n \in 1..Len(modules["M"].defs) : modules["M"].defs[n].name = "x"
       /\ \E q \in 1..Len(result.defs) : origin[q].from = "proto"

(***************************************************************************)
(* C5: in a copied prototype definition a referred or applied name is left *)
(* as it is when it is a built-in (whatever the table holds), makes        *)
(* flatten abort when the table has no entry for the reference's id, is    *)
(* left as it is when the entry is a param, and becomes N::<name>          *)
(* otherwise.                                                              *)
(***************************************************************************)
RECURSIVE RefsOf(_)
\* the references of an expression: its names and applied operators
RefsOf(e) ==
  CASE e.kind = "name" -> {[name |-> e.name, id |-> e.id]}
    [] e.kind = "app" ->
         {[name |-> e.opcode, id |-> e.id]}
           \cup UNION { RefsOf(e.args[k]) : k \in 1..Len(e.args) }
    [] e.kind = "lambda" -> RefsOf(e.expr)
    [] e.kind = "let" -> RefsOf(e.opdef.expr) \cup RefsOf(e.expr)
    [] OTHER -> {}

BodyOf(d) ==
  CASE d.kind = "def" -> d.expr
    [] d.kind = "assume" -> d.assumption
    [] OTHER -> Undefined

RefsOfDef(d) == IF BodyOf(d) = Undefined THEN {} ELSE RefsOf(BodyOf(d))

IsBuiltin(n) == \E k \in 1..Len(defaultDefinitions) : defaultDefinitions[k] = n

Unresolved(d) ==
  \E r \in RefsOfDef(d) : ~IsBuiltin(r.name) /\ r.id \notin DOMAIN table

ClaimedName(ns, n, id) ==
  IF IsBuiltin(n) THEN n
  ELSE IF table[id].kind = "param" THEN n
  ELSE ns \o "::" \o n

RECURSIVE RewrittenAsClaimed(_, _, _)
RewrittenAsClaimed(ns, src, out) ==
  /\ out.kind = src.kind
  /\ CASE src.kind = "name" -> out.name = ClaimedName(ns, src.name, src.id)
       [] src.kind = "app" ->
            /\ out.opcode = ClaimedName(ns, src.opcode, src.id)
            /\ Len(out.args) = Len(src.args)
            /\ \A k \in 1..Len(src.args) :
                 RewrittenAsClaimed(ns, src.args[k], out.args[k])
       [] src.kind = "lambda" -> RewrittenAsClaimed(ns, src.expr, out.expr)
       [] src.kind = "let" ->
            /\ RewrittenAsClaimed(ns, src.opdef.expr, out.opdef.expr)
            /\ RewrittenAsClaimed(ns, src.expr, out.expr)
       [] OTHER -> out.value = src.value

SourceOf(q) == modules[module.defs[origin[q].i].protoName].defs[origin[q].k]

C5_NameRewriteRule ==
  /\ \A q \in 1..Len(acc) :
       (origin[q].from = "proto" /\ BodyOf(SourceOf(q)) # Undefined) =>
         /\ ~Unresolved(SourceOf(q))
         /\ RewrittenAsClaimed(module.defs[origin[q].i].name,
                               BodyOf(SourceOf(q)), BodyOf(acc[q]))
  /\ (status = "thrown" /\ error = "Could not find def") =>
       /\ j > 0
       /\ Unresolved(modules[module.defs[i].protoName].defs[j])
  /\ status = "thrown" => result = Undefined

C5_Witness ==
  /\ status = "returned"
  /\ \E q \in 1..Len(acc) :
       /\ origin[q].from = "proto"
       /\ SourceOf(q).name = "f"
       /\ acc[q].expr.expr.opcode = "iadd"
       /\ acc[q].expr.expr.args[1].name = module.defs[origin[q].i].name \o "::x"
       /\ acc[q].expr.expr.args[2].name = "p"
       /\ 23 \notin DOMAIN table

C5_WitnessAbort ==
  /\ status = "thrown" /\ error = "Could not find def"
  /\ modules[module.defs[i].protoName].defs[j].name = "g"

(***************************************************************************)
(* C6: flatten never returns a module after processing an instance whose   *)
(* prototype holds an instance declaration: it throws.                     *)
(***************************************************************************)
C6_InnerInstanceIsFatal ==
  status = "returned" =>
    \A k \in InstancesOf(module) :
      InstancesOf(modules[module.defs[k].protoName]) = {}

(***************************************************************************)
(* C7: on a module without instance declarations flatten returns the       *)
(* module as it is, and does not throw, whatever the table and the module  *)
(* map.                                                                    *)
(***************************************************************************)
C7_NoInstanceNoOp ==
  InstancesOf(module) = {} =>
    /\ status # "thrown"
    /\ status = "returned" => result = module

C7_Witness ==
  /\ status = "returned"
  /\ InstancesOf(module) = {}
  /\ Len(module.defs) = 2
  /\ 53 \notin DOMAIN table

(***************************************************************************)
(* The result of collectDefinitions: visitor.tables, each name with its    *)
(* Map, each key of the Map with its DefinitionTable.                      *)
(***************************************************************************)
Finished == open = <<>> /\ lastEvent.kind = "exitModuleDef"

LookupTable(name) == maps[tables[name]]

Entry(name, key) == objects[LookupTable(name).at[key]]

Range(seq) == { seq[k] : k \in DOMAIN seq }

BuiltinDef(n) ==
  [kind |-> "def", identifier |-> n, reference |-> Undefined, scope |-> Undefined]

\* C8: every lookup table of the collector, of the module and of every module
\* nested in it at any depth, has an entry for every name of the builtin
\* registry, and the entry contains the builtin definition.
C8_BuiltinsInEveryTable ==
  \A name \in DOMAIN tables :
    \A n \in builtinNames :
      /\ MapHas(LookupTable(name), n)
      /\ BuiltinDef(n) \in Range(Entry(name, n).valueDefinitions)

\* a module nested at depth two has been collected and left, and a module
\* declared a name of the registry itself
C8_Witness ==
  /\ Finished
  /\ DOMAIN tables = {"A", "B"}
  /\ MapHas(LookupTable("A"), "B::B::size")
  /\ Len(Entry("B", "size").valueDefinitions) > 1

\* the keys `_` and `<module>::_`, for the modules nested up to depth two
DiscardKeys ==
  {"_"} \cup { Namespaced(a, "_") : a \in ModuleNames }
        \cup { Namespaced(a, Namespaced(b, "_")) : a, b \in ModuleNames }

\* C9: after collectDefinitions no table of any module has the key `_`,
\* whatever declaration or binder introduced it (a type declaration
\* included), nor a key `<module>::_`.
C9_DiscardNeverRecorded ==
  Finished =>
    \A name \in DOMAIN tables :
      DOMAIN LookupTable(name).at \cap DiscardKeys = {}

Declarations ==
  {"enterVar", "enterConst", "enterTypeDef", "enterAssume", "enterOpDef"}

\* the definition with this reference is recorded in the entry
RecordedIn(entry, id) ==
  \/ \E d \in Range(entry.valueDefinitions) : d.reference = BigInt(id)
  \/ \E d \in Range(entry.typeDefinitions) : d.reference = BigInt(id)

\* exitModuleDef, on leaving Inner nested in Outer: every unscoped definition
\* of Inner's table is in Outer's table under Inner::identifier, with the same
\* kind and reference, and Outer's table has the entry Inner, of kind module,
\* whose reference is the id of the nested module's declaration
CopiedOnExit ==
  LET inner == lastExit.inner
      outer == lastExit.outer
  IN /\ \A key \in DOMAIN LookupTable(inner).at :
          \A d \in Range(Entry(inner, key).valueDefinitions) :
            d.scope = Undefined =>
              /\ MapHas(LookupTable(outer), Namespaced(inner, d.identifier))
              /\ \E e \in Range(Entry(outer, Namespaced(inner, d.identifier)).valueDefinitions) :
                   e.kind = d.kind /\ e.reference = d.reference
     /\ MapHas(LookupTable(outer), inner)
     /\ \E e \in Range(Entry(outer, inner).valueDefinitions) :
          e.kind = "module" /\ e.reference = BigInt(lastEvent.id)

\* a declaration of Outer that follows Inner is recorded in Outer's table and
\* not in Inner's
DeclaredInOuterOnly ==
  LET inner == lastExit.inner
      outer == lastExit.outer
      name == lastEvent.name
  IN /\ MapHas(LookupTable(outer), name)
     /\ RecordedIn(Entry(outer, name), lastEvent.id)
     /\ ~(MapHas(LookupTable(inner), name) /\ RecordedIn(Entry(inner, name), lastEvent.id))

\* C10: when the collector leaves a module Inner nested in a module Outer of
\* another name, Outer's table has the prefixed copies of Inner's unscoped
\* definitions and the module entry Inner; the current table is Outer's, and
\* the declarations of Outer that follow are recorded in Outer's table and
\* not in Inner's.
C10_ExitReturnsToOuter ==
  (lastExit # NoExit /\ lastExit.inner # lastExit.outer) =>
    /\ currentTable = tables[lastExit.outer]
    /\ lastEvent.kind = "exitModuleDef" => CopiedOnExit
    /\ (lastEvent.kind \in Declarations /\ lastEvent.name # "_") => DeclaredInOuterOnly

\* what of C10 does not depend on the tables sharing the objects of the
\* registry: the same, for declarations that are not named as a builtin
C10_ApartFromSharedEntries ==
  (lastExit # NoExit /\ lastExit.inner # lastExit.outer) =>
    /\ currentTable = tables[lastExit.outer]
    /\ lastEvent.kind = "exitModuleDef" => CopiedOnExit
    /\ (lastEvent.kind \in Declarations /\ lastEvent.name \notin builtinNames \cup {"_"})
         => DeclaredInOuterOnly

\* C11: for every module with an instance declaration named N, the table
\* collectDefinitions produces for the module has an entry N that holds a
\* value definition of kind module.
C11_InstanceRecordedAsModule ==
  Finished =>
    \A inst \in instances :
      inst.name # "_" =>
      /\ MapHas(LookupTable(inst.module), inst.name)
      /\ \E d \in Range(Entry(inst.module, inst.name).valueDefinitions) : d.kind = "module"

(***************************************************************************)
(* Alias chains of the lookup table.                                       *)
(***************************************************************************)
\* the table resolves the named type: it has an entry with a type annotation
Resolvable(type) ==
  /\ type.kind = "const"
  /\ type.id \in DOMAIN lookupTable
  /\ isAnnotatedDef(lookupTable[type.id])

\* from each reference, the reference its type annotation is an alias of
ChainEdges ==
  [k \in DOMAIN lookupTable |->
     IF isAnnotatedDef(lookupTable[k]) /\ Resolvable(lookupTable[k].typeAnnotation)
     THEN {lookupTable[k].typeAnnotation.id}
     ELSE {}]

\* from each reference, the references its type annotation has anywhere in it
AllEdges ==
  [k \in DOMAIN lookupTable |->
     IF isAnnotatedDef(lookupTable[k])
     THEN { c.id : c \in { d \in ConstsOf(lookupTable[k].typeAnnotation) : Resolvable(d) } }
     ELSE {}]

RECURSIVE ReachFrom(_, _, _)
ReachFrom(edges, S, n) ==
  IF n = 0 THEN S
  ELSE ReachFrom(edges, S \cup UNION { edges[k] : k \in S }, n - 1)

Acyclic(edges) ==
  \A k \in DOMAIN edges :
    k \notin ReachFrom(edges, edges[k], Cardinality(DOMAIN edges))

\* C12: with acyclic alias chains, resolving a named type the table resolves
\* terminates and returns the last type of its chain, which is no alias the
\* table resolves; a named type whose entry is absent or has no type
\* annotation is returned unchanged.
C12_AliasChainResolved ==
  (resolved # NotYet /\ Acyclic(ChainEdges)) =>
    /\ resolved.status = "returned"
    /\ IF Resolvable(aliasType)
       THEN /\ ~Resolvable(resolved.type)
            /\ \E k \in ReachFrom(ChainEdges, {aliasType.id}, Cardinality(DOMAIN lookupTable)) :
                 resolved.type = lookupTable[k].typeAnnotation
       ELSE resolved.type = aliasType

\* T1 = T2, T2 = T3, T3 = int, and a reference to T1 resolved to int
C12_Witness ==
  /\ resolved # NotYet
  /\ aliasType = TConst("T1", 8)
  /\ {8, 1, 4} \subseteq DOMAIN lookupTable
  /\ lookupTable[8].typeAnnotation = TConst("T2", 1)
  /\ lookupTable[1].typeAnnotation = TConst("T3", 4)
  /\ lookupTable[4].typeAnnotation = TInt(6)
  /\ resolved.type = TInt(6)

\* the table and the modules the inliner was given are those of the inputs still
InputsIntact ==
  \E t1 \in T1Types, t2 \in T2Types, t3 \in T3Types, tv \in VTypes, absent \in AbsentRefs :
    /\ lookupTable = AliasTable(t1, t2, t3, tv, absent)
    /\ aliasModules = <<AliasModule(t1, t2, t3, tv)>>

AllUnscoped(table_) ==
  { k \in DOMAIN table_ :
      \A d \in Range(table_[k].valueDefinitions) : d.scope = Undefined }

\* C14: a successful `import M.*` adds to the importing module's table
\* exactly the identifiers of M's table whose definitions are all unscoped,
\* each with its entry of M's table, and no identifier that has a scoped
\* definition in M's table.
C14_WildcardImportsUnscoped ==
  [][ (/\ AtDecl
       /\ importDefs[importPos].kind = "import"
       /\ importDefs[importPos].name = "*"
       /\ importDefs[importPos].path \in DOMAIN importTables)
      => LET from == importTables[importDefs[importPos].path] IN
         /\ importErrors' = importErrors
         /\ DOMAIN importTables'[moduleName] =
              DOMAIN importTables[moduleName] \cup AllUnscoped(from)
         /\ \A k \in AllUnscoped(from) : importTables'[moduleName][k] = from[k]
         /\ \A k \in DOMAIN from \ AllUnscoped(from) :
              k \in DOMAIN importTables'[moduleName] => k \in DOMAIN importTables[moduleName]
    ]_vars

\* `import test_module.*` done, test_module with a, b, the scoped c and an m
\* defined both at module level and in a scope
C14_Witness ==
  /\ importPos > 1
  /\ importDefs[1] = ImportDecl("*", "test_module", 22)
  /\ "m" \in DOMAIN importTables["test_module"]
  /\ {"a", "b"} \subseteq DOMAIN importTables[moduleName]
  /\ importTables[moduleName]["a"] = testModuleTable["a"]
  /\ DOMAIN importTables[moduleName] \cap {"c", "m"} = {}

ModuleOf(def) == IF def.kind = "import" THEN def.path ELSE def.protoName

\* the declaration names a module the tables have not
MissingModule(def) == ModuleOf(def) \notin DOMAIN importTables

\* the import names a definition the module's table has not
MissingName(def) ==
  /\ def.kind = "import"
  /\ def.name # "*"
  /\ ~MissingModule(def)
  /\ def.name \notin DOMAIN importTables[def.path]

\* the import names a nested module the tables have not
MissingNested(def) ==
  /\ def.kind = "import"
  /\ def.name # "*"
  /\ ~MissingModule(def)
  /\ def.name \in DOMAIN importTables[def.path]
  /\ \E d \in Range(importTables[def.path][def.name].valueDefinitions) : d.kind = "module"
  /\ def.name \notin DOMAIN importTables

Unresolvable ==
  { k \in DOMAIN importDefs :
      MissingModule(importDefs[k]) \/ MissingName(importDefs[k]) \/ MissingNested(importDefs[k]) }

ImportTestsPass ==
  (importResult # NotYet /\ importTables["test_module"] = testModuleTable
     /\ Len(importDefs) = 1) =>
    LET def == importDefs[1]
        keys == DOMAIN importResult.definitions[moduleName]
    IN /\ def = ImportDecl("a", "test_module", 21) =>
            importResult.kind = "ok" /\ "a" \in keys /\ "b" \notin keys
       /\ def = ImportDecl("*", "test_module", 22) =>
            importResult.kind = "ok" /\ {"a", "b"} \subseteq keys
       /\ def = InstanceDecl("test_module_instance", "test_module", <<"a", "b">>, 24) =>
            importResult.kind = "ok"
            /\ {"test_module_instance::a", "test_module_instance::b"} \subseteq keys
       /\ def = ImportDecl("nested_module", "test_module", 27) =>
            importResult.kind = "ok" /\ "nested_module::d" \in keys
       /\ def = ImportDecl("*", "unexisting_module", 23) =>
            importResult.kind = "error"
            /\ [k \in 1..Len(importResult.errors) |-> importResult.errors[k].moduleName]
                 = <<"unexisting_module">>
       /\ def = InstanceDecl("test_module_instance", "unexisting_module", <<"a", "b">>, 25) =>
            importResult.kind = "error"
            /\ [k \in 1..Len(importResult.errors) |-> importResult.errors[k].moduleName]
                 = <<"unexisting_module">>
       /\ def = ImportDecl("unexisting_module", "test_module", 26) =>
            importResult.kind = "error"
            /\ [k \in 1..Len(importResult.errors) |-> importResult.errors[k].defName]
                 = <<"unexisting_module">>

(***************************************************************************)
(* Scopes.                                                                 *)
(***************************************************************************)
\* the value definitions the current module's table holds for the node of
\* the last call
RecordedDefs ==
  IF MapHas(LookupTable(currentModuleName), lastEvent.name)
  THEN { d \in Range(Entry(currentModuleName, lastEvent.name).valueDefinitions) :
           d.reference = BigInt(lastEvent.id) }
  ELSE {}

\* C16: the scope stack is empty whenever a declaration of a module is
\* entered, whatever lets and lambdas the earlier declarations had, and an
\* operator definition of the module is recorded without scope; an operator
\* bound by a let is recorded with the id of that let as its scope, the
\* innermost one when lets are nested.
C16_ScopesFollowLets ==
  /\ (lastEvent.kind \in Declarations \cup {"instance", "enterModuleDef"}
        /\ open # <<>> /\ Top(open).kind = "module") => scopeStack = <<>>
  /\ (lastEvent.kind = "enterOpDef" /\ lastEvent.name # "_") =>
       /\ RecordedDefs # {}
       /\ \A d \in RecordedDefs :
            d.scope = IF Top(open).kind = "let" THEN BigInt(Top(open).id) ELSE Undefined

\* the operator of a let inside a let has been recorded, with the inner let
\* as its scope
C16_Witness ==
  /\ lastEvent.kind = "enterOpDef"
  /\ lastEvent.name = "x"
  /\ Len(scopeStack) = 2
  /\ Len(open) = 3
  /\ \E d \in RecordedDefs : d.scope = BigInt(scopeStack[2]) /\ d.scope # BigInt(scopeStack[1])

\* C17: a definition of a nested module recorded with a scope, whatever the
\* scope's id, the id 0 included, is not copied into the enclosing module's
\* table under the nested module's prefix.
C17_ScopedNeverCopied ==
  (lastEvent.kind = "exitModuleDef" /\ lastExit # NoExit /\ lastExit.inner # lastExit.outer) =>
    \A key \in DOMAIN LookupTable(lastExit.inner).at :
      \A d \in Range(Entry(lastExit.inner, key).valueDefinitions) :
        d.scope # Undefined =>
          \/ ~MapHas(LookupTable(lastExit.outer), Namespaced(lastExit.inner, d.identifier))
          \/ \A e \in Range(Entry(lastExit.outer,
                                  Namespaced(lastExit.inner, d.identifier)).valueDefinitions) :
               ~(e.kind = d.kind /\ e.reference = d.reference)

\* the same for the scopes whose id is not 0
C17_ApartFromZero ==
  (lastEvent.kind = "exitModuleDef" /\ lastExit # NoExit /\ lastExit.inner # lastExit.outer) =>
    \A key \in DOMAIN LookupTable(lastExit.inner).at :
      \A d \in Range(Entry(lastExit.inner, key).valueDefinitions) :
        d.scope \notin {Undefined, BigInt(0)} =>
          \/ ~MapHas(LookupTable(lastExit.outer), Namespaced(lastExit.inner, d.identifier))
          \/ \A e \in Range(Entry(lastExit.outer,
                                  Namespaced(lastExit.inner, d.identifier)).valueDefinitions) :
               ~(e.kind = d.kind /\ e.reference = d.reference)

\* C19: a definition declared in a module, its identifier a builtin name or
\* not, is not in the table of a module of another name under that
\* identifier.
C19_TablesIndependent ==
  (lastEvent.kind \in Declarations /\ lastEvent.name # "_") =>
    \A name \in DOMAIN tables \ {currentModuleName} :
      ~(/\ MapHas(LookupTable(name), lastEvent.name)
        /\ RecordedIn(Entry(name, lastEvent.name), lastEvent.id))

\* the same for the identifiers that are no builtin name
C19_ApartFromBuiltins ==
  (lastEvent.kind \in Declarations /\ lastEvent.name \notin builtinNames \cup {"_"}) =>
    \A name \in DOMAIN tables \ {currentModuleName} :
      ~(/\ MapHas(LookupTable(name), lastEvent.name)
        /\ RecordedIn(Entry(name, lastEvent.name), lastEvent.id))

(***************************************************************************)
(* Substitutions.                                                          *)
(***************************************************************************)
\* the values of the substitutions of a kind and a name
ValuesFor(kind, name) ==
  {subs[k].value : k \in {l \in 1..Len(subs) : subs[l].kind = kind /\ subs[l].name = name}}

RECURSIVE VariablesSubstituted(_, _)

\* res is orig with every quantified name that has a substitution of kind
\* variable replaced by the value of such a substitution, the rest unchanged
VariablesSubstituted(orig, res) ==
  CASE orig.kind = "quantified" ->
         IF ValuesFor("variable", orig.name) # {}
         THEN res \in ValuesFor("variable", orig.name)
         ELSE res = orig
    [] orig.kind = "union" ->
         /\ res.kind = "union"
         /\ Len(res.variables) = Len(orig.variables)
         /\ \A k \in 1..Len(orig.variables) :
              VariablesSubstituted(orig.variables[k], res.variables[k])
    [] OTHER -> res = orig

RECURSIVE EffectSubstituted(_, _)

\* the same for quantified effects and substitutions of kind effect
EffectSubstituted(orig, res) ==
  CASE orig.kind = "quantified" ->
         IF ValuesFor("effect", orig.name) # {}
         THEN res \in ValuesFor("effect", orig.name)
         ELSE res = orig
    [] orig.kind = "arrow" ->
         /\ res.kind = "arrow"
         /\ Len(res.params) = Len(orig.params)
         /\ \A k \in 1..Len(orig.params) :
              EffectSubstituted(orig.params[k], res.params[k])
         /\ EffectSubstituted(orig.result, res.result)
    [] OTHER -> TRUE

Substituted ==
  IF substTarget.kind = "variables"
  THEN VariablesSubstituted(substTarget.value, substResult.value)
  ELSE EffectSubstituted(substTarget.value, substResult.value)

\* C18: applying substitutions replaces every quantified name for which subs
\* holds a substitution of the matching kind by that substitution's value,
\* inside unions too, whatever other substitutions of either kind and any
\* name subs holds and in whatever order, and leaves the other names
\* unchanged.
C18_EveryDefinedNameSubstituted ==
  substResult # NotYet => Substituted

\* the names that subs gives a substitution of each kind
SharedNames ==
  {subs[k].name : k \in 1..Len(subs)} \cap
    {n \in {subs[k].name : k \in 1..Len(subs)} :
       ValuesFor("variable", n) # {} /\ ValuesFor("effect", n) # {}}

\* what holds of the code: the same, when no name has substitutions of both kinds
C18_ApartFromSharedNames ==
  (substResult # NotYet /\ SharedNames = {}) => Substituted

(***************************************************************************)
(* The single-table collector.                                             *)
(***************************************************************************)
\* the names collected from a module alone
CollectedFrom(m) ==
  reduceDefs(m.defs, [nameDefinitions |-> <<>>, typeDefinitions |-> <<>>]).nameDefinitions

RECURSIVE CollectedUpTo(_)

\* the names collected by the first k calls, in order
CollectedUpTo(k) ==
  IF k = 0 THEN <<>> ELSE CollectedUpTo(k - 1) \o CollectedFrom(returned[k].module)

\* C20: collectDefinitions leaves defaultDefinitions unchanged, so the table
\* returned for a module holds exactly the builtins and the names collected
\* from that module, and two calls on the same module return equal tables
\* whatever was collected in between.
C20_DefaultDefinitionsUnchanged ==
  /\ defaultDefinitionsArray = defaultDefinitionsLiteral
  /\ \A k \in 1..Len(returned) :
       returned[k].nameDefinitions =
         defaultDefinitionsLiteral \o CollectedFrom(returned[k].module)
  /\ \A k, l \in 1..Len(returned) :
       returned[k].module = returned[l].module =>
         /\ returned[k].nameDefinitions = returned[l].nameDefinitions
         /\ returned[k].typeDefinitions = returned[l].typeDefinitions

\* what holds of the code: each call returns the builtins and the names
\* collected by every call so far, and leaves them in defaultDefinitions
C20_NamesAccumulate ==
  /\ \A k \in 1..Len(returned) :
       returned[k].nameDefinitions = defaultDefinitionsLiteral \o CollectedUpTo(k)
  /\ returned # <<>> =>
       defaultDefinitionsArray = returned[Len(returned)].nameDefinitions

(***************************************************************************)
(* The evaluation Context.                                                 *)
(***************************************************************************)
\* the fields of the constants, and those of the namespaces
ConstantsSide(cx) == <<cx.consts, cx.constHistory>>

NamespacesSide(cx) == <<cx.namespaces, cx.namespacesHistory>>

\* a removeConstants restores consts as the matching addConstants found it
ConstantsRestored ==
  Len(constsBefore') < Len(constsBefore) =>
    context'.consts = constsBefore[Len(constsBefore)]

\* a removeNamespaces restores namespaces as the matching addNamespaces found it
NamespacesRestored ==
  Len(namespacesBefore') < Len(namespacesBefore) =>
    context'.namespaces = namespacesBefore[Len(namespacesBefore)].before

\* the calls on the constants leave the namespaces alone, and the reverse
HistoriesIndependent ==
  /\ lastCall'.name \in {"addConstants", "removeConstants"} =>
       NamespacesSide(context') = NamespacesSide(context)
  /\ lastCall'.name \in {"addNamespaces", "removeNamespaces"} =>
       ConstantsSide(context') = ConstantsSide(context)

ResetKeepsBoth ==
  lastCall'.name = "reset" =>
    /\ ConstantsSide(context') = ConstantsSide(context)
    /\ NamespacesSide(context') = NamespacesSide(context)

\* C21: in a properly nested sequence of addConstants/removeConstants and
\* addNamespaces/removeNamespaces calls each remove restores consts, or
\* namespaces, to the value it had just before the matching add, also when
\* addNamespaces added nothing; the calls on the constants change nothing of
\* the namespaces and the reverse, and reset changes neither consts,
\* namespaces nor their histories.
C21_RemoveRestores ==
  [][ConstantsRestored /\ NamespacesRestored /\ HistoriesIndependent /\ ResetKeepsBoth]_vars

\* a removeNamespaces has closed, inside another addNamespaces still open, an
\* addNamespaces that added nothing because what it was given was a prefix
\* of the namespaces, with an addConstants open that added constants
C21_Witness ==
  /\ lastCall.name = "removeNamespaces"
  /\ lastCall.matched.given = ImmList(<<"A">>)
  /\ lastCall.matched.before = ImmList(<<"A", "B">>)
  /\ context.namespaces = ImmList(<<"A", "B">>)
  /\ namespacesBefore # <<>>
  /\ constsBefore # <<>>
  /\ context.consts # ImmMap({})

=============================================================================
